---- MODULE Spec2Model ----
(***************************************************************************)
(* Model of the cotton-finder server (my-app/server): the product store    *)
(* written through db/repositories.js, the composition parser, the product *)
(* record builder of the Zara scraper and the category normaliser.         *)
(*                                                                         *)
(* Text is modelled as a sequence of one-character strings so that the     *)
(* regular expressions and String.includes of the source are computed      *)
(* character by character.                                                 *)
(***************************************************************************)
EXTENDS Integers, Sequences, FiniteSets, TLC

VARIABLES
    store,      \* the products collection: documents in insertion order
    now,        \* the wall clock read by new Date()
    run,        \* per ingestion run: position inside bulkUpsertProducts
    pIn, pOut,  \* last call of the composition parser: input, results
    bIn, bOut,  \* last call of the record builder: input, product
    cIn, cOut,  \* last call of normalizeCategory: input, result
    vIn, vOut,  \* last call of getCategoryVariations: input, results
    qIn, qOut,  \* last catalog query: request, response
    job,        \* the scraping run in progress
    cache,      \* the search result cache of scraper.js: key -> list
    svc,        \* the service call in progress and what it did
    conn        \* mongoClient.js: client, db and the connect calls

vars == <<store, now, run, pIn, pOut, bIn, bOut, cIn, cOut,
          vIn, vOut, qIn, qOut, job, cache, svc, conn>>

catalogVars == <<vIn, vOut, qIn, qOut>>

ingestVars == <<job>>

serviceVars == <<cache, svc, conn>>

\* ------------------------------------------------------------------ bounds
MaxTime  == 3    \* clock ticks explored
MaxBatch == 2    \* products per bulkUpsertProducts call
MaxCalls == 2    \* bulkUpsertProducts calls of a run on its own
ConcCalls == 1   \* bulkUpsertProducts calls of each of two concurrent runs

RECURSIVE SeqsUpTo(_, _)
SeqsUpTo(S, n) ==
    IF n = 0 THEN {<<>>}
    ELSE LET shorter == SeqsUpTo(S, n - 1)
         IN  shorter \cup {Append(s, x) : s \in {t \in shorter : Len(t) = n - 1}, x \in S}

\* ------------------------------------------------- optional JS values
\* A property that may be undefined/null is <<>> (absent) or <<v>>.
None == <<>>
Some(v) == <<v>>

\* product.x || d for a number: undefined, null and 0 are falsy
OrNum(o, d) == IF o = None \/ o[1] = 0 THEN d ELSE o[1]

\* product.x || d for a string: undefined, null and "" are falsy
OrStr(o, d) == IF o = None \/ o[1] = <<>> THEN d ELSE o[1]

\* ------------------------------------------------------------------- text
\* A JavaScript string is the sequence of its characters.
UpperCase ==
   <<"A", "B", "C", "D", "E", "F", "G", "H", "I", "J", "K", "L", "M", "N",
    "O", "P", "Q", "R", "S", "T", "U", "V", "W", "X", "Y", "Z">>

LowerCase ==
   <<"a", "b", "c", "d", "e", "f", "g", "h", "i", "j", "k", "l", "m", "n",
    "o", "p", "q", "r", "s", "t", "u", "v", "w", "x", "y", "z">>

DigitChars ==
   <<"0", "1", "2", "3", "4", "5", "6", "7", "8", "9">>

Range(f) == {f[i] : i \in DOMAIN f}

AlphaSet == Range(UpperCase) \cup Range(LowerCase)

DigitSet == Range(DigitChars)

LowerOf == [c \in Range(UpperCase) |->
               LowerCase[CHOOSE i \in 1..26 : UpperCase[i] = c]]

DigitValue == [c \in DigitSet |-> CHOOSE n \in 0..9 : DigitChars[n + 1] = c]

\* [a-zA-Z]
IsAlpha(c) == c \in AlphaSet

\* \d
IsDigit(c) == c \in DigitSet

\* \s (the white space that occurs in scraped text)
IsSpace(c) == c \in {" ", "\n", "\t"}

LowerChar(c) == IF c \in DOMAIN LowerOf THEN LowerOf[c] ELSE c

\* String.prototype.toLowerCase
toLowerCase(s) == [i \in 1..Len(s) |-> LowerChar(s[i])]

\* s.slice(i - 1, i - 1 + Len(t)) === t
At(s, i, t) == i >= 1 /\ i + Len(t) - 1 <= Len(s) /\ SubSeq(s, i, i + Len(t) - 1) = t

\* String.prototype.includes
includes(s, t) == \E i \in 1..(Len(s) + 1) : At(s, i, t)

\* String.prototype.trim
trim(s) ==
    IF \A i \in 1..Len(s) : IsSpace(s[i]) THEN <<>>
    ELSE LET a == CHOOSE i \in 1..Len(s) :
                     ~IsSpace(s[i]) /\ \A k \in 1..(i - 1) : IsSpace(s[k])
             b == CHOOSE i \in 1..Len(s) :
                     ~IsSpace(s[i]) /\ \A k \in (i + 1)..Len(s) : IsSpace(s[k])
         IN  SubSeq(s, a, b)

\* s.split(/\s+/).join(' ') of a trimmed string: every run of white space
\* becomes one blank.
RECURSIVE SingleSpaced(_)
SingleSpaced(s) ==
    IF s = <<>> THEN <<>>
    ELSE IF IsSpace(s[1])
         THEN IF Len(s) > 1 /\ IsSpace(s[2])
              THEN SingleSpaced(Tail(s))
              ELSE <<" ">> \o SingleSpaced(Tail(s))
         ELSE <<s[1]>> \o SingleSpaced(Tail(s))

\* parseFloat / parseInt(_, 10) of a run of decimal digits
RECURSIVE parseInt(_)
parseInt(ds) ==
    IF ds = <<>> THEN 0
    ELSE 10 * parseInt(SubSeq(ds, 1, Len(ds) - 1)) + DigitValue[ds[Len(ds)]]

\* \d* from p: the index after the run of digits that starts at p.
RECURSIVE SkipDigits(_, _)
SkipDigits(s, p) ==
    IF p > Len(s) \/ ~IsDigit(s[p]) THEN p ELSE SkipDigits(s, p + 1)

\* \s* from p: the index after the run of white space that starts at p.
RECURSIVE SkipSpaces(_, _)
SkipSpaces(s, p) ==
    IF p > Len(s) \/ ~IsSpace(s[p]) THEN p ELSE SkipSpaces(s, p + 1)

\* [a-zA-Z\s]* from p: the index after the run of letters and white space.
RECURSIVE SkipFiber(_, _)
SkipFiber(s, p) ==
    IF p > Len(s) \/ ~(IsAlpha(s[p]) \/ IsSpace(s[p])) THEN p
    ELSE SkipFiber(s, p + 1)

\* ----------------------------------------------------- compositionParser
S_cotton == <<"c", "o", "t", "t", "o", "n">>

\* (\d{1,3})% at p: one to three digits directly followed by the percent
\* sign.  The sign follows the whole digit run, so the run is the group.
PercentAt(s, p) ==
    LET q == SkipDigits(s, p)
    IN  q - p \in 1..3 /\ q <= Len(s) /\ s[q] = "%"

\* /(\d{1,3})%\s*([a-zA-Z\s]+)/ matches at p
PatternAt(s, p) ==
    /\ PercentAt(s, p)
    /\ SkipFiber(s, SkipDigits(s, p) + 1) > SkipDigits(s, p) + 1

\* The match at p: group 1, group 2 and the index after the match.
\* \s* is greedy and gives one character back when the run after the
\* percent sign is white space only.
MatchAt(s, p) ==
    LET q == SkipDigits(s, p)
        e == SkipFiber(s, q + 1)
        w == SkipSpaces(s, q + 1)
        g == IF w < e THEN w ELSE e - 1
    IN  [g1 |-> SubSeq(s, p, q - 1), g2 |-> SubSeq(s, g, e - 1), next |-> e]

\* Array.from(textLower.matchAll(pattern)): the matches found scanning
\* from index p, each search resuming after the previous match.
RECURSIVE matchAll(_, _)
matchAll(s, p) ==
    IF p > Len(s) THEN <<>>
    ELSE IF PatternAt(s, p)
         THEN <<MatchAt(s, p)>> \o matchAll(s, MatchAt(s, p).next)
         ELSE matchAll(s, p + 1)

\* an assignment that keeps the value of a key already present
PutIfAbsent(m, k, v) ==
    [x \in DOMAIN m \cup {k} |-> IF x \in DOMAIN m THEN m[x] ELSE v]

\* composition[fiberClean] = percent
Put(m, k, v) == [x \in DOMAIN m \cup {k} |-> IF x = k THEN v ELSE m[x]]

\* fiber names compared for equality with 'cotton'
IsExactlyCotton(fiber) == fiber = S_cotton

\* fiber.includes('cotton')
IsCottonFiber(fiber) == includes(fiber, S_cotton)

\* p > 90
Above90(p) == p > 90

\* p >= 90.0
AtLeast90(p) == p >= 90

\* The for loop of parseComposition over the matches k..Len(ms).
RECURSIVE ParseLoop(_, _, _, _)
ParseLoop(ms, k, composition, cottonPercents) ==
    IF k > Len(ms)
    THEN [composition |-> composition,
          isCotton90 |-> \E i \in 1..Len(cottonPercents) :
                              AtLeast90(cottonPercents[i])]
    ELSE LET percent == parseInt(ms[k].g1)
             fiber == toLowerCase(trim(ms[k].g2))
             fiberClean == SingleSpaced(fiber)
         IN  ParseLoop(ms, k + 1, Put(composition, fiberClean, percent),
                       IF IsCottonFiber(fiber)
                       THEN Append(cottonPercents, percent)
                       ELSE cottonPercents)

\* parseComposition(text); text is [kind |-> "string", chars |-> ...] or a
\* value of another type.
parseComposition(text) ==
    IF text.kind # "string" \/ text.chars = <<>>
    THEN [composition |-> <<>>, isCotton90 |-> FALSE]
    ELSE ParseLoop(matchAll(toLowerCase(text.chars), 1), 1, <<>>, <<>>)

\* /(\d{1,3})%\s*cotton/i matches at p
CottonAt(s, p) ==
    /\ PercentAt(s, p)
    /\ At(s, SkipSpaces(s, SkipDigits(s, p) + 1), S_cotton)

\* The positions from p on where the cotton pattern matches.
RECURSIVE CottonMatches(_, _)
CottonMatches(s, p) ==
    IF p > Len(s) THEN <<>>
    ELSE IF CottonAt(s, p) THEN <<p>> \o CottonMatches(s, p + 1)
         ELSE CottonMatches(s, p + 1)

\* textLower.match(...): the first match, parseInt(cottonMatch[1], 10)
FirstCottonMatch(s) ==
    LET ps == CottonMatches(s, 1)
    IN  IF ps = <<>> THEN 0
        ELSE parseInt(SubSeq(s, ps[1], SkipDigits(s, ps[1]) - 1))

\* getCottonPercentage(text)
getCottonPercentage(text) ==
    IF text.kind # "string" \/ text.chars = <<>>
    THEN 0
    ELSE FirstCottonMatch(toLowerCase(text.chars))

NoCall == [kind |-> "none"]

\* Composition texts as the product pages give them: up to MaxEntries
\* entries "<Label: ><number>% <fiber words>", all joined by one separator.
MaxEntries == 2

W_Shell == <<"S", "h", "e", "l", "l">>
W_Cotton == <<"C", "o", "t", "t", "o", "n">>
W_Elastane == <<"E", "l", "a", "s", "t", "a", "n", "e">>
W_Organic == <<"O", "r", "g", "a", "n", "i", "c">>

\* An entry may carry a garment-part label ("Shell: ").
Labels == {<<>>, <<W_Shell>>}

Numbers ==
    {[chars |-> <<"5">>, value |-> 5],
     [chars |-> <<"8", "9">>, value |-> 89],
     [chars |-> <<"9", "0">>, value |-> 90],
     [chars |-> <<"9", "5">>, value |-> 95]}

\* Fiber names as lists of words; the words of a name are two blanks apart.
Fibers == {<<W_Cotton>>, <<W_Elastane>>, <<W_Organic, W_Cotton>>}

Separators == {<<",", " ">>, <<" ">>}

Entries == [label : Labels, num : Numbers, fiber : Fibers]

RECURSIVE JoinWords(_, _)
JoinWords(ws, sep) ==
    IF ws = <<>> THEN <<>>
    ELSE IF Len(ws) = 1 THEN ws[1]
    ELSE ws[1] \o sep \o JoinWords(Tail(ws), sep)

RenderEntry(e) ==
    (IF e.label = <<>> THEN <<>> ELSE e.label[1] \o <<":", " ">>)
    \o e.num.chars \o <<"%", " ">> \o JoinWords(e.fiber, <<" ", " ">>)

RenderText(es, sep) ==
    JoinWords([k \in 1..Len(es) |-> RenderEntry(es[k])], sep)

ParserInputs ==
    {[kind |-> "string", chars |-> RenderText(es, sep),
      entries |-> es, sep |-> sep] :
        es \in SeqsUpTo(Entries, MaxEntries), sep \in Separators}
    \cup {[kind |-> "undefined"], [kind |-> "null"], [kind |-> "number"]}

\* parseComposition and getCottonPercentage applied to the same text, as
\* extractProductInfo does.
ParseCall ==
    /\ pIn = NoCall
    /\ \E text \in ParserInputs :
          /\ pIn' = text
          /\ pOut' = [kind |-> "result",
                      parsed |-> parseComposition(text),
                      cottonPercentage |-> getCottonPercentage(text)]
    /\ UNCHANGED <<store, now, run, bIn, bOut, cIn, cOut, catalogVars, ingestVars, serviceVars>>

\* ---------------------------------------------------- string literals
S_tops == <<"t", "o", "p", "s">>
S_pants == <<"p", "a", "n", "t", "s">>
S_skirts == <<"s", "k", "i", "r", "t", "s">>
S_dresses == <<"d", "r", "e", "s", "s", "e", "s">>
S_shirts == <<"s", "h", "i", "r", "t", "s">>
S_tshirts == <<"t", "s", "h", "i", "r", "t", "s">>
S_jackets == <<"j", "a", "c", "k", "e", "t", "s">>
S_unknown == <<"u", "n", "k", "n", "o", "w", "n">>
S_male == <<"m", "a", "l", "e">>
S_female == <<"f", "e", "m", "a", "l", "e">>
S_dress == <<"d", "r", "e", "s", "s">>
S_shirt == <<"s", "h", "i", "r", "t">>
S_trouser == <<"t", "r", "o", "u", "s", "e", "r">>
S_pant == <<"p", "a", "n", "t">>
S_jean == <<"j", "e", "a", "n">>
S_tshirt == <<"t", "s", "h", "i", "r", "t">>
S_tee == <<"t", "e", "e">>
S_top == <<"t", "o", "p">>
S_skirt == <<"s", "k", "i", "r", "t">>
S_jacket == <<"j", "a", "c", "k", "e", "t">>
S_blouse == <<"b", "l", "o", "u", "s", "e">>
S_t_shirt == <<"t", "-", "s", "h", "i", "r", "t">>
S_Various == <<"V", "a", "r", "i", "o", "u", "s">>
S_UnknownProduct == <<"U", "n", "k", "n", "o", "w", "n", " ", "P", "r", "o", "d", "u", "c", "t">>
S_NoMaterial ==
   <<"M", "a", "t", "e", "r", "i", "a", "l", " ", "i", "n", "f", "o", "r",
    "m", "a", "t", "i", "o", "n", " ", "n", "o", "t", " ", "a", "v", "a",
    "i", "l", "a", "b", "l", "e">>

\* ------------------------------------------------------ normalizeCategory
\* A category value is [kind |-> "string", chars |-> ...], or null or
\* undefined.
Str(chars) == [kind |-> "string", chars |-> chars]

Null == [kind |-> "null"]

\* 'shirt', 'shirts', 'top', 'tops' tested with includes like the others
TopsSignalLoose(lower) ==
    \/ includes(lower, S_t_shirt) \/ includes(lower, S_tshirt)
    \/ includes(lower, S_tee) \/ includes(lower, S_blouse)
    \/ includes(lower, S_shirt) \/ includes(lower, S_top)

\* server.js: the condition of the first if of normalizeCategory
TopsSignal(lower) ==
    \/ includes(lower, S_t_shirt) \/ includes(lower, S_tshirt)
    \/ includes(lower, S_tee) \/ includes(lower, S_blouse)
    \/ lower = S_shirt \/ lower = S_shirts \/ lower = S_top \/ lower = S_tops

\* server.js normalizeCategory(categoryName)
normalizeCategory(categoryName) ==
    IF categoryName.kind # "string" \/ categoryName.chars = <<>> THEN Null
    ELSE LET lower == toLowerCase(categoryName.chars)
         IN  IF TopsSignal(lower) THEN Str(S_tops)
             ELSE IF includes(lower, S_pant) \/ includes(lower, S_jean)
                     \/ includes(lower, S_trouser) THEN Str(S_pants)
             ELSE IF includes(lower, S_skirt) THEN Str(S_skirts)
             ELSE IF includes(lower, S_dress) THEN Str(S_dresses)
             ELSE Str(lower)

\* routes/products normalizeCategory(categoryName), the router's own copy
normalizeCategoryRouter(categoryName) ==
    IF categoryName.kind # "string" \/ categoryName.chars = <<>> THEN Null
    ELSE LET lower == toLowerCase(categoryName.chars)
         IN  IF \/ includes(lower, S_t_shirt) \/ includes(lower, S_tshirt)
                \/ includes(lower, S_tee) \/ includes(lower, S_blouse)
                \/ lower = S_shirt \/ lower = S_shirts
                \/ lower = S_top \/ lower = S_tops
             THEN Str(S_tops)
             ELSE IF includes(lower, S_pant) \/ includes(lower, S_jean)
                     \/ includes(lower, S_trouser) THEN Str(S_pants)
             ELSE IF includes(lower, S_skirt) THEN Str(S_skirts)
             ELSE IF includes(lower, S_dress) THEN Str(S_dresses)
             ELSE Str(lower)

\* Category texts: up to MaxWords words joined by a blank or by nothing,
\* as written, capitalised or in upper case.
MaxWords == 2

W_blue ==
   <<"b", "l", "u", "e">>
W_jeans ==
   <<"j", "e", "a", "n", "s">>
W_steel ==
   <<"s", "t", "e", "e", "l">>
W_unknown_garment ==
   <<"u", "n", "k", "n", "o", "w", "n", "-", "g", "a", "r", "m", "e", "n",
    "t">>

CategoryWords ==
    {S_t_shirt, S_tshirt, S_tee, S_blouse, S_shirt, S_shirts, S_top, S_tops,
     S_pant, S_jean, S_trouser, S_skirt, S_dress,
     W_blue, W_jeans, W_steel, W_unknown_garment}

UpperOf == [c \in Range(LowerCase) |->
               UpperCase[CHOOSE i \in 1..26 : LowerCase[i] = c]]

UpperChar(c) == IF c \in DOMAIN UpperOf THEN UpperOf[c] ELSE c

Cased(s, style) ==
    IF style = "upper" THEN [i \in 1..Len(s) |-> UpperChar(s[i])]
    ELSE IF style = "capital" /\ s # <<>>
         THEN <<UpperChar(s[1])>> \o Tail(s)
    ELSE s

CategoryInputs ==
    {Str(Cased(JoinWords(ws, sep), style)) :
        ws \in SeqsUpTo(CategoryWords, MaxWords), sep \in {<<" ">>, <<>>},
        style \in {"plain", "capital", "upper"}}
    \cup {Null, [kind |-> "undefined"]}

\* normalizeCategory applied to one value, by the server and by the router.
NormalizeCall ==
    /\ cIn = NoCall
    /\ \E c \in CategoryInputs :
          /\ cIn' = c
          /\ cOut' = [kind |-> "result",
                      server |-> normalizeCategory(c),
                      router |-> normalizeCategoryRouter(c)]
    /\ UNCHANGED <<store, now, run, pIn, pOut, bIn, bOut, catalogVars, ingestVars, serviceVars>>

\* --------------------------------------------------- getCategoryVariations
\* The result of a property lookup that is an array of strings.
List(items) == [kind |-> "list", items |-> items]

\* The result of a lookup that finds a property inherited from
\* Object.prototype: a function or an object, not an array.
Inherited == [kind |-> "inherited"]

\* The names every object literal inherits from Object.prototype.
ObjectPrototypeKeys ==
    {<<"c", "o", "n", "s", "t", "r", "u", "c", "t", "o", "r">>,
     <<"_", "_", "p", "r", "o", "t", "o", "_", "_">>,
     <<"h", "a", "s", "O", "w", "n", "P", "r", "o", "p", "e", "r", "t", "y">>,
     <<"i", "s", "P", "r", "o", "t", "o", "t", "y", "p", "e", "O", "f">>,
     <<"p", "r", "o", "p", "e", "r", "t", "y", "I", "s", "E", "n", "u", "m", "e", "r", "a", "b", "l", "e">>,
     <<"t", "o", "L", "o", "c", "a", "l", "e", "S", "t", "r", "i", "n", "g">>,
     <<"t", "o", "S", "t", "r", "i", "n", "g">>,
     <<"v", "a", "l", "u", "e", "O", "f">>,
     <<"_", "_", "d", "e", "f", "i", "n", "e", "G", "e", "t", "t", "e", "r", "_", "_">>,
     <<"_", "_", "d", "e", "f", "i", "n", "e", "S", "e", "t", "t", "e", "r", "_", "_">>,
     <<"_", "_", "l", "o", "o", "k", "u", "p", "G", "e", "t", "t", "e", "r", "_", "_">>,
     <<"_", "_", "l", "o", "o", "k", "u", "p", "S", "e", "t", "t", "e", "r", "_", "_">>}

\* The pants list with 'shorts' added to it.
variationsWithShorts ==
    (S_tops :> <<Str(<<"t", "o", "p", "s">>),
      Str(<<"t", "o", "p">>),
      Str(<<"t", "s", "h", "i", "r", "t", "s">>),
      Str(<<"t", "s", "h", "i", "r", "t">>),
      Str(<<"t", "-", "s", "h", "i", "r", "t">>),
      Str(<<"t", "-", "s", "h", "i", "r", "t", "s">>),
      Str(<<"s", "h", "i", "r", "t">>),
      Str(<<"s", "h", "i", "r", "t", "s">>),
      Str(<<"b", "l", "o", "u", "s", "e">>),
      Str(<<"b", "l", "o", "u", "s", "e", "s">>)>>)
    @@ (S_pants :> <<Str(<<"p", "a", "n", "t", "s">>),
      Str(<<"p", "a", "n", "t">>),
      Str(<<"j", "e", "a", "n", "s">>),
      Str(<<"j", "e", "a", "n">>),
      Str(<<"t", "r", "o", "u", "s", "e", "r", "s">>),
      Str(<<"t", "r", "o", "u", "s", "e", "r">>),
      Str(<<"s", "h", "o", "r", "t", "s">>)>>)
    @@ (S_skirts :> <<Str(<<"s", "k", "i", "r", "t", "s">>),
      Str(<<"s", "k", "i", "r", "t">>)>>)
    @@ (S_dresses :> <<Str(<<"d", "r", "e", "s", "s", "e", "s">>),
      Str(<<"d", "r", "e", "s", "s">>)>>)

\* server.js getCategoryVariations: the object literal variations
variations ==
    (S_tops :> <<Str(<<"t", "o", "p", "s">>),
      Str(<<"t", "o", "p">>),
      Str(<<"t", "s", "h", "i", "r", "t", "s">>),
      Str(<<"t", "s", "h", "i", "r", "t">>),
      Str(<<"t", "-", "s", "h", "i", "r", "t">>),
      Str(<<"t", "-", "s", "h", "i", "r", "t", "s">>),
      Str(<<"s", "h", "i", "r", "t">>),
      Str(<<"s", "h", "i", "r", "t", "s">>),
      Str(<<"b", "l", "o", "u", "s", "e">>),
      Str(<<"b", "l", "o", "u", "s", "e", "s">>)>>)
    @@ (S_pants :> <<Str(<<"p", "a", "n", "t", "s">>),
      Str(<<"p", "a", "n", "t">>),
      Str(<<"j", "e", "a", "n", "s">>),
      Str(<<"j", "e", "a", "n">>),
      Str(<<"t", "r", "o", "u", "s", "e", "r", "s">>),
      Str(<<"t", "r", "o", "u", "s", "e", "r">>)>>)
    @@ (S_skirts :> <<Str(<<"s", "k", "i", "r", "t", "s">>),
      Str(<<"s", "k", "i", "r", "t">>)>>)
    @@ (S_dresses :> <<Str(<<"d", "r", "e", "s", "s", "e", "s">>),
      Str(<<"d", "r", "e", "s", "s">>)>>)

\* routes/products getCategoryVariations: its own object literal
variationsRouter ==
    (S_tops :> <<Str(<<"t", "o", "p", "s">>),
      Str(<<"t", "o", "p">>),
      Str(<<"t", "s", "h", "i", "r", "t", "s">>),
      Str(<<"t", "s", "h", "i", "r", "t">>),
      Str(<<"t", "-", "s", "h", "i", "r", "t">>),
      Str(<<"t", "-", "s", "h", "i", "r", "t", "s">>),
      Str(<<"s", "h", "i", "r", "t">>),
      Str(<<"s", "h", "i", "r", "t", "s">>),
      Str(<<"b", "l", "o", "u", "s", "e">>),
      Str(<<"b", "l", "o", "u", "s", "e", "s">>)>>)
    @@ (S_pants :> <<Str(<<"p", "a", "n", "t", "s">>),
      Str(<<"p", "a", "n", "t">>),
      Str(<<"j", "e", "a", "n", "s">>),
      Str(<<"j", "e", "a", "n">>),
      Str(<<"t", "r", "o", "u", "s", "e", "r", "s">>),
      Str(<<"t", "r", "o", "u", "s", "e", "r">>)>>)
    @@ (S_skirts :> <<Str(<<"s", "k", "i", "r", "t", "s">>),
      Str(<<"s", "k", "i", "r", "t">>)>>)
    @@ (S_dresses :> <<Str(<<"d", "r", "e", "s", "s", "e", "s">>),
      Str(<<"d", "r", "e", "s", "s">>)>>)

\* variations[key] || [key] on an object literal: an own property, else a
\* property inherited from Object.prototype (always truthy), else the
\* singleton.  The key is the argument converted to a string, and no
\* property is named "null", "undefined" or "".
Lookup(table, c) ==
    IF c.kind = "string" /\ c.chars \in DOMAIN table THEN List(table[c.chars])
    ELSE IF c.kind = "string" /\ c.chars \in ObjectPrototypeKeys THEN Inherited
    ELSE List(<<c>>)

\* server.js getCategoryVariations(normalizedCategory)
getCategoryVariations(normalizedCategory) ==
    Lookup(variations, normalizedCategory)

\* routes/products getCategoryVariations(normalizedCategory)
getCategoryVariationsRouter(normalizedCategory) ==
    Lookup(variationsRouter, normalizedCategory)

\* The values getCategoryVariations is applied to: the category texts, the
\* canonical names and names that Object.prototype defines.
VariationInputs ==
    CategoryInputs
    \cup {Str(S_pants), Str(S_skirts), Str(S_dresses), Str(S_jackets)}
    \cup {Str(k) : k \in ObjectPrototypeKeys}

\* getCategoryVariations applied to one value, by the server and by the
\* router.
VariationsCall ==
    /\ vIn = NoCall
    /\ \E c \in VariationInputs :
          /\ vIn' = c
          /\ vOut' = [kind |-> "result",
                      server |-> getCategoryVariations(c),
                      router |-> getCategoryVariationsRouter(c)]
    /\ UNCHANGED <<store, now, run, pIn, pOut, bIn, bOut, cIn, cOut,
                   qIn, qOut, ingestVars, serviceVars>>

\* ------------------------------------------------------ the record builder
\* '/woman' and '/women' found by the test for 'man' / 'men'
determineGenderNoSlash(url) ==
    LET urlLower == toLowerCase(url)
    IN  IF includes(urlLower, <<"m", "a", "n">>)
           \/ includes(urlLower, <<"m", "e", "n">>) THEN S_male
        ELSE IF includes(urlLower, <<"/", "w", "o", "m", "a", "n">>)
                \/ includes(urlLower, <<"/", "w", "o", "m", "e", "n">>)
             THEN S_female
        ELSE S_unknown

\* ZaraScraper.determineGender(url)
determineGender(url) ==
    LET urlLower == toLowerCase(url)
    IN  IF includes(urlLower, <<"/", "m", "a", "n">>)
           \/ includes(urlLower, <<"/", "m", "e", "n">>) THEN S_male
        ELSE IF includes(urlLower, <<"/", "w", "o", "m", "a", "n">>)
                \/ includes(urlLower, <<"/", "w", "o", "m", "e", "n">>)
             THEN S_female
        ELSE S_unknown

\* ZaraScraper.determineCategory(url, name, desc)
determineCategory(url, name, desc) ==
    LET urlLower == toLowerCase(url)
        combined == urlLower \o <<" ">> \o toLowerCase(name)
                    \o <<" ">> \o toLowerCase(desc)
    IN  IF includes(combined, S_dress) THEN S_dresses
        ELSE IF includes(combined, S_shirt) THEN S_shirts
        ELSE IF includes(combined, S_trouser) \/ includes(combined, S_pant)
                \/ includes(combined, S_jean) THEN S_pants
        ELSE IF includes(combined, S_tshirt) \/ includes(combined, S_t_shirt)
                \/ includes(combined, S_tee) THEN S_tshirts
        ELSE IF includes(combined, S_top) /\ ~includes(combined, S_tshirt)
             THEN S_tops
        ELSE IF includes(combined, S_skirt) THEN S_skirts
        ELSE IF includes(combined, S_jacket) THEN S_jackets
        ELSE IF includes(urlLower, <<"/">> \o S_dresses) THEN S_dresses
        ELSE IF includes(urlLower, <<"/">> \o S_shirts) THEN S_shirts
        ELSE IF includes(urlLower, <<"/", "t", "r", "o", "u", "s", "e", "r", "s">>)
                \/ includes(urlLower, <<"/">> \o S_pants) THEN S_pants
        ELSE IF includes(urlLower, <<"/", "t", "-", "s", "h", "i", "r", "t", "s">>)
                \/ includes(urlLower, <<"/">> \o S_tshirts) THEN S_tshirts
        ELSE IF includes(urlLower, <<"/">> \o S_tops) THEN S_tops
        ELSE IF includes(urlLower, <<"/">> \o S_skirts) THEN S_skirts
        ELSE IF includes(urlLower, <<"/">> \o S_jackets) THEN S_jackets
        ELSE S_unknown

\* scraper.js: the colors array, in its order
Colors ==
    <<<<"b", "l", "a", "c", "k">>,
      <<"w", "h", "i", "t", "e">>,
      <<"b", "l", "u", "e">>,
      <<"r", "e", "d">>,
      <<"g", "r", "e", "e", "n">>,
      <<"n", "a", "v", "y">>,
      <<"g", "r", "e", "y">>,
      <<"g", "r", "a", "y">>,
      <<"b", "e", "i", "g", "e">>,
      <<"b", "r", "o", "w", "n">>,
      <<"p", "i", "n", "k">>,
      <<"y", "e", "l", "l", "o", "w">>>>

\* the for loop of extractColor from colors[k] on
RECURSIVE ColorFrom(_, _)
ColorFrom(text, k) ==
    IF k > Len(Colors) THEN S_Various
    ELSE IF includes(text, Colors[k])
         THEN <<UpperChar(Colors[k][1])>> \o Tail(Colors[k])
         ELSE ColorFrom(text, k + 1)

\* scraper.js extractColor(name, description)
extractColor(name, description) ==
    ColorFrom(toLowerCase(name \o <<" ">> \o description), 1)

\* ZaraScraper.extractProductInfo(url) once the page has given
\* productData: the product, or null when no name was found.
extractProductInfo(url, productData) ==
    LET category == determineCategory(url, productData.name, productData.materials)
        gender == determineGender(url)
        compositionText == productData.materials
        cottonPercentage == getCottonPercentage(Str(compositionText))
        parsed == parseComposition(Str(compositionText))
    IN  IF productData.name = <<>> \/ productData.name = S_UnknownProduct
        THEN Null
        ELSE [kind |-> "product",
              name |-> productData.name,
              price |-> productData.price,
              cottonPercentage |-> cottonPercentage,
              materials |-> IF compositionText = <<>> THEN S_NoMaterial
                            ELSE compositionText,
              composition_parsed |-> parsed.composition,
              is_cotton_90 |-> parsed.isCotton90,
              category |-> category,
              gender |-> gender,
              url |-> url]

\* What the product pages give.
ZaraBase ==
   <<"h", "t", "t", "p", "s", ":", "/", "/", "w", "w", "w", ".", "z", "a",
    "r", "a", ".", "c", "o", "m", "/", "c", "a", "/", "e", "n">>

PageUrls ==
    {ZaraBase \o <<"/", "w", "o", "m", "a", "n", "/", "p", "r", "o", "d", "u", "c", "t", "/", "p", "1", "2", "3", "4", "5", "6", ".", "h", "t", "m", "l">>,
     ZaraBase \o <<"/", "m", "a", "n", "/", "p", "r", "o", "d", "u", "c", "t", "/", "p", "2", ".", "h", "t", "m", "l">>,
     ZaraBase \o <<"/", "w", "o", "m", "e", "n", "/", "s", "k", "i", "r", "t", "s", "/", "p", "3", ".", "h", "t", "m", "l">>,
     ZaraBase \o <<"/", "k", "i", "d", "s", "/", "p", "4", ".", "h", "t", "m", "l">>}

PageNames ==
    {<<"C", "o", "t", "t", "o", "n", " ", "C", "r", "e", "w", " ", "T", "e", "e">>,
     <<"B", "l", "u", "e", " ", "D", "e", "n", "i", "m", " ", "J", "e", "a", "n", "s">>,
     <<"L", "i", "n", "e", "n", " ", "M", "i", "d", "i", " ", "D", "r", "e", "s", "s">>,
     <<"O", "v", "e", "r", "s", "i", "z", "e", "d", " ", "T", "-", "S", "h", "i", "r", "t">>,
     <<"U", "n", "k", "n", "o", "w", "n", " ", "P", "r", "o", "d", "u", "c", "t">>,
     <<>>}

PageMaterials ==
    {<<"S", "h", "e", "l", "l", ":", " ", "9", "5", "%", " ", "C", "o", "t", "t", "o", "n", ",", " ", "5", "%", " ", "E", "l", "a", "s", "t", "a", "n", "e", ".">>,
     <<>>,
     <<"1", "0", "0", "%", " ", "O", "r", "g", "a", "n", "i", "c", " ", "C", "o", "t", "t", "o", "n">>,
     <<"6", "0", "%", " ", "C", "o", "t", "t", "o", "n", ",", " ", "4", "0", "%", " ", "P", "o", "l", "y", "e", "s", "t", "e", "r">>,
     <<"8", "9", "%", " ", "c", "o", "t", "t", "o", "n">>}

PagePrices == {None, Some(30)}

\* The ingestion path of searchZara and scrapeZaraCategory for one URL:
\* extractProductInfo, then the color added to the product.
BuildCall ==
    /\ bIn = NoCall
    /\ \E url \in PageUrls, name \in PageNames,
          materials \in PageMaterials, price \in PagePrices :
          LET productData == [name |-> name, price |-> price,
                              materials |-> materials]
              product == extractProductInfo(url, productData)
          IN  /\ bIn' = [kind |-> "page", url |-> url, productData |-> productData]
              /\ bOut' = IF product = Null THEN Null
                         ELSE product @@
                              [color |-> extractColor(product.name,
                                                      product.materials)]
    /\ UNCHANGED <<store, now, run, pIn, pOut, cIn, cOut, catalogVars, ingestVars, serviceVars>>

\* ------------------------------------------------------------ the store
\* Products handed to the repository by the ingestion paths.  u1 occurs
\* with two different contents (a re-scrape), one of them with the
\* optional fields missing and flagged by the curated run.
N_CrewTee == <<"C", "r", "e", "w", " ", "T", "e", "e">>
N_CrewTeeV2 == <<"C", "r", "e", "w", " ", "T", "e", "e", " ", "v", "2">>
N_WideJeans == <<"W", "i", "d", "e", " ", "J", "e", "a", "n", "s">>
M_Cotton95 == <<"9", "5", "%", " ", "C", "o", "t", "t", "o", "n">>
M_Cotton100 == <<"1", "0", "0", "%", " ", "C", "o", "t", "t", "o", "n">>
S_Blue == <<"B", "l", "u", "e">>

ProductA1 ==
    [url |-> "u1", name |-> N_CrewTee, price |-> Some(30),
     category |-> Some(S_tshirts), materials |-> Some(M_Cotton95),
     cottonPercentage |-> Some(95), is_cotton_90 |-> Some(TRUE),
     color |-> Some(S_Blue), isCurated |-> FALSE]

ProductA2 ==
    [url |-> "u1", name |-> N_CrewTeeV2, price |-> Some(0),
     category |-> None, materials |-> None,
     cottonPercentage |-> None, is_cotton_90 |-> None,
     color |-> None, isCurated |-> TRUE]

ProductB1 ==
    [url |-> "u2", name |-> N_WideJeans, price |-> Some(60),
     category |-> Some(S_pants), materials |-> Some(M_Cotton100),
     cottonPercentage |-> Some(100), is_cotton_90 |-> None,
     color |-> Some(<<>>), isCurated |-> FALSE]

Products == {ProductA1, ProductA2, ProductB1}

Batches == SeqsUpTo(Products, MaxBatch)

\* productToDict: the $set document (without the timestamps, which
\* UpsertCall adds).  isCurated is not among the fields copied.
productToDict(product) ==
    [url              |-> product.url,
     name             |-> product.name,
     price            |-> IF OrNum(product.price, 0) = 0 THEN None
                          ELSE Some(product.price[1]),
     category         |-> IF OrStr(product.category, <<>>) = <<>> THEN None
                          ELSE Some(product.category[1]),
     composition_raw  |-> OrStr(product.materials, <<>>),
     cottonPercentage |-> OrNum(product.cottonPercentage, 0),
     is_cotton_90     |-> IF product.is_cotton_90 # None
                          THEN product.is_cotton_90[1]
                          ELSE (product.cottonPercentage # None
                                /\ product.cottonPercentage[1] >= 90),
     color            |-> OrStr(product.color, S_Various)]

ContentFields ==
    {"url", "name", "price", "category", "composition_raw",
     "cottonPercentage", "is_cotton_90", "color"}

\* The content of a stored document: the fields productToDict writes.
Content(d) == [f \in ContentFields |-> d[f]]

\* updateOne never finding a document: every upsert inserts.
FindNone(s, url) == 0

\* Query phase of updateOne with the filter { url: product.url }: the
\* first document whose url matches (0 when there is none).
FindOne(s, url) ==
    IF \E j \in 1..Len(s) : s[j].url = url
    THEN CHOOSE j \in 1..Len(s) :
            /\ s[j].url = url
            /\ \A k \in 1..(j - 1) : s[k].url # url
    ELSE 0

\* $set that also carries createdAt.
SetAllFields(d, doc, ts) ==
    [f \in ContentFields |-> doc[f]] @@ [createdAt |-> ts, updatedAt |-> ts]

\* Every field under $setOnInsert: a matched document keeps its content.
SetOnlyOnInsert(d, doc, ts) ==
    [f \in ContentFields |-> d[f]] @@
    [createdAt |-> d.createdAt, updatedAt |-> ts]

\* $set on a matched document: every field of the document plus
\* updatedAt; createdAt is not in $set.
ApplySet(d, doc, ts) ==
    [f \in ContentFields |-> doc[f]] @@
    [createdAt |-> d.createdAt, updatedAt |-> ts]

\* upsert: true with no match: insert filter fields, $set and $setOnInsert.
InsertDoc(doc, ts) ==
    [f \in ContentFields |-> doc[f]] @@ [createdAt |-> ts, updatedAt |-> ts]

NoDoc == [url |-> "", name |-> ""]

NoJob == [kind |-> "none"]

IdleRun == [pc |-> "idle", batch |-> <<>>, i |-> 0, calls |-> 0,
            doc |-> NoDoc, ts |-> 0, match |-> 0]

\* bulkUpsertProducts(products): entered by run r.
StartBulk(r, batch, limit) ==
    /\ run[r].pc \in {"idle", "done"}
    /\ run[r].calls < limit
    /\ run' = [run EXCEPT ![r] =
                 [pc |-> IF Len(batch) = 0 THEN "done" ELSE "loop",
                  batch |-> batch, i |-> 1, calls |-> run[r].calls + 1,
                  doc |-> NoDoc, ts |-> 0, match |-> 0]]
    /\ UNCHANGED <<store, now, pIn, pOut, bIn, bOut, cIn, cOut, catalogVars, ingestVars, serviceVars>>

\* upsertProduct, up to the await: the document and both dates are
\* computed by the client and the updateOne is sent.
UpsertCall(r) ==
    /\ run[r].pc = "loop"
    /\ run' = [run EXCEPT ![r].pc = "sent",
                          ![r].doc = productToDict(run[r].batch[run[r].i]),
                          ![r].ts = now]
    /\ UNCHANGED <<store, now, pIn, pOut, bIn, bOut, cIn, cOut, catalogVars, ingestVars, serviceVars>>

\* The server's query phase of updateOne.
ServerMatch(r) ==
    /\ run[r].pc = "sent"
    /\ run' = [run EXCEPT ![r].pc = "matched",
                          ![r].match = FindOne(store, run[r].doc.url)]
    /\ UNCHANGED <<store, now, pIn, pOut, bIn, bOut, cIn, cOut, catalogVars, ingestVars, serviceVars>>

\* The server's write phase: update the matched document or insert; the
\* await resolves and the for loop moves to the next product.
ServerApply(r) ==
    /\ run[r].pc = "matched"
    /\ store' = IF run[r].match > 0
                THEN [store EXCEPT ![run[r].match] =
                        ApplySet(store[run[r].match], run[r].doc, run[r].ts)]
                ELSE Append(store, InsertDoc(run[r].doc, run[r].ts))
    /\ run' = [run EXCEPT ![r].pc = IF run[r].i = Len(run[r].batch)
                                    THEN "done" ELSE "loop",
                          ![r].i = IF run[r].i = Len(run[r].batch)
                                   THEN run[r].i ELSE run[r].i + 1]
    /\ UNCHANGED <<now, pIn, pOut, bIn, bOut, cIn, cOut, catalogVars, ingestVars, serviceVars>>

\* Time passes between two reads of new Date().
Tick ==
    /\ now < MaxTime
    /\ now' = now + 1
    /\ UNCHANGED <<store, run, pIn, pOut, bIn, bOut, cIn, cOut, catalogVars, ingestVars, serviceVars>>

PageMaterialsShell ==
    <<"S", "h", "e", "l", "l", ":", " ", "9", "5", "%", " ", "C", "o", "t", "t", "o", "n", ",", " ", "5", "%", " ", "E", "l", "a", "s", "t", "a", "n", "e", ".">>

M_Blend == <<"6", "0", "%", " ", "C", "o", "t", "t", "o", "n", ",", " ", "4", "0", "%", " ", "P", "o", "l", "y", "e", "s", "t", "e", "r">>

\* ------------------------------------------------------ catalog queries
MaxStore == 3    \* products in the catalog a query runs against

\* Products handed to bulkUpsertProducts before the catalog is queried:
\* categories as the scrapers and older runs wrote them, percentages above
\* and below the threshold and not extracted (0), prices present, equal
\* and missing.
CatalogTee ==
    [url |-> "c1", name |-> N_CrewTee, price |-> Some(20),
     category |-> Some(S_t_shirt), materials |-> Some(M_Cotton100),
     cottonPercentage |-> Some(100), is_cotton_90 |-> Some(TRUE),
     color |-> Some(S_Blue), isCurated |-> FALSE]

CatalogBlouse ==
    [url |-> "c2", name |-> <<"P", "o", "p", "l", "i", "n", " ", "B", "l", "o", "u", "s", "e">>, price |-> Some(40),
     category |-> Some(S_blouse), materials |-> Some(M_Cotton95),
     cottonPercentage |-> Some(95), is_cotton_90 |-> Some(TRUE),
     color |-> None, isCurated |-> FALSE]

CatalogJeans ==
    [url |-> "c3", name |-> <<"S", "l", "i", "m", " ", "J", "e", "a", "n", "s">>, price |-> Some(50),
     category |-> Some(S_pants), materials |-> Some(M_Blend),
     cottonPercentage |-> Some(60), is_cotton_90 |-> Some(FALSE),
     color |-> None, isCurated |-> FALSE]

CatalogPalazzo ==
    [url |-> "c4", name |-> <<"P", "a", "l", "a", "z", "z", "o">>, price |-> Some(0),
     category |-> Some(S_pants), materials |-> Some(S_NoMaterial),
     cottonPercentage |-> Some(0), is_cotton_90 |-> Some(FALSE),
     color |-> None, isCurated |-> TRUE]

CatalogJacket ==
    [url |-> "c5", name |-> <<"D", "e", "n", "i", "m", " ", "J", "a", "c", "k", "e", "t">>, price |-> Some(20),
     category |-> Some(S_jackets), materials |-> Some(<<"9", "2", "%", " ", "C", "o", "t", "t", "o", "n", ",", " ", "8", "%", " ", "L", "i", "n", "e", "n">>),
     cottonPercentage |-> Some(92), is_cotton_90 |-> Some(TRUE),
     color |-> None, isCurated |-> FALSE]

CatalogShirt ==
    [url |-> "c6", name |-> <<"L", "i", "n", "e", "n", " ", "S", "h", "i", "r", "t">>, price |-> Some(30),
     category |-> Some(S_shirts), materials |-> Some(S_NoMaterial),
     cottonPercentage |-> Some(0), is_cotton_90 |-> Some(FALSE),
     color |-> None, isCurated |-> FALSE]

CatalogProducts ==
    {CatalogTee, CatalogBlouse, CatalogJeans, CatalogPalazzo, CatalogJacket,
     CatalogShirt}

\* upsertProduct(product) from the call to the resolved await, with no
\* other upsert in between.
upsertProduct(s, product, ts) ==
    LET doc == productToDict(product)
        j == FindOne(s, doc.url)
    IN  IF j > 0 THEN [s EXCEPT ![j] = ApplySet(s[j], doc, ts)]
        ELSE Append(s, InsertDoc(doc, ts))

\* A product is saved before any query is made.
Ingest ==
    /\ qIn = NoCall
    /\ \E product \in CatalogProducts :
          /\ FindOne(store, product.url) > 0 \/ Len(store) < MaxStore
          /\ store' = upsertProduct(store, product, now)
    /\ UNCHANGED <<now, run, pIn, pOut, bIn, bOut, cIn, cOut, vIn, vOut,
                   qIn, qOut, ingestVars, serviceVars>>

\* ---- the query language of the store
\* { field: { $gte: n } }
Gte(field, n) == [op |-> "gte", field |-> field, n |-> n]

\* { field: { $gte: a, $lt: b } }
GteLt(field, a, b) == [op |-> "gtelt", field |-> field, a |-> a, b |-> b]

\* { field: { $lte: n } }
Lte(field, n) == [op |-> "lte", field |-> field, n |-> n]

\* { field: { $in: [0, null] } }
InZeroNull(field) == [op |-> "inZeroNull", field |-> field]

\* { field: true }
IsTrue(field) == [op |-> "true", field |-> field]

\* { field: { $in: list } }
In(field, list) == [op |-> "in", field |-> field, list |-> list]

\* { field: new RegExp(term, 'i') } for a term of letters, digits, blanks
\* and hyphens
Regex(field, term) == [op |-> "regex", field |-> field, term |-> term]

\* { $or: [...] } and { $and: [...] }
Or(clauses) == [op |-> "or", of |-> clauses]

And(clauses) == [op |-> "and", of |-> clauses]

\* ['tops', 'pants', 'skirts', 'dresses']
Taxonomy == List(<<Str(S_tops), Str(S_pants), Str(S_skirts), Str(S_dresses)>>)

\* A field of a stored document: absent fields and null are None.
Field(d, field) ==
    IF field \notin DOMAIN d THEN None
    ELSE IF field \in {"price", "category"} THEN d[field]
    ELSE Some(d[field])

\* $in matching only the first element of the list
InFirstOnly(v, list) == v # None /\ list.items[1] = Str(v[1])

\* $in on a string field: the value equals an element of the list
InList(v, list) ==
    v # None /\ \E i \in DOMAIN list.items : list.items[i] = Str(v[1])

\* Does document d satisfy the clause?
RECURSIVE Satisfies(_, _)
Satisfies(d, c) ==
    LET v == Field(d, c.field)
    IN  CASE c.op = "gte" -> v # None /\ v[1] >= c.n
          [] c.op = "gtelt" -> v # None /\ v[1] >= c.a /\ v[1] < c.b
          [] c.op = "lte" -> v # None /\ v[1] <= c.n
          [] c.op = "inZeroNull" -> v = None \/ v[1] = 0
          [] c.op = "true" -> v # None /\ v[1] = TRUE
          [] c.op = "in" -> InList(v, c.list)
          [] c.op = "regex" -> v # None /\ includes(toLowerCase(v[1]), toLowerCase(c.term))
          [] c.op = "or" -> \E i \in DOMAIN c.of : Satisfies(d, c.of[i])
          [] c.op = "and" -> \A i \in DOMAIN c.of : Satisfies(d, c.of[i])

\* The store rejects a query whose $in operand is not an array.
RECURSIVE WellFormed(_)
WellFormed(c) ==
    CASE c.op = "in" -> c.list.kind = "list"
      [] c.op \in {"or", "and"} -> \A i \in DOMAIN c.of : WellFormed(c.of[i])
      [] OTHER -> TRUE

\* A query object: the top-level keys the handlers assign, each absent
\* (None) or holding its condition; a later assignment to a key replaces
\* the earlier one.
QueryKeys == {"$or", "$and", "cottonPercentage", "category", "is_cotton_90", "price"}

EmptyQuery == [k \in QueryKeys |-> None]

\* The condition a key stands for.
KeyClause(k, value) ==
    IF k = "$or" THEN Or(value)
    ELSE IF k = "$and" THEN And(value)
    ELSE value

QueryOk(query) ==
    \A k \in QueryKeys :
        query[k] = None \/ WellFormed(KeyClause(k, query[k][1]))

Matches(d, query) ==
    \A k \in QueryKeys :
        query[k] = None \/ Satisfies(d, KeyClause(k, query[k][1]))

\* The positions of the documents collection.find(query) selects.
find(s, query) == {j \in 1..Len(s) : Matches(s[j], query)}

\* Order of the price key in the store: null and missing sort before every
\* number.
PriceLeq(a, b) == a = None \/ (b # None /\ a[1] <= b[1])

\* any order of the selected documents
AnyOrder(s, order) == TRUE

\* sort({ price: 1 }): the order is ascending in price
InPriceOrder(s, order) ==
    \A i, j \in DOMAIN order :
        i < j => PriceLeq(s[order[i]].price, s[order[j]].price)

\* The results cursor.sort({ price: 1 }).toArray() may give: the selected
\* documents in price order, documents of equal price in either order.
Sorted(s, sel) ==
    {[i \in 1..Cardinality(sel) |-> s[order[i]]] :
        order \in {o \in [1..Cardinality(sel) -> sel] :
                     /\ \A i, j \in DOMAIN o : i # j => o[i] # o[j]
                     /\ InPriceOrder(s, o)}}

\* cursor.limit(n) / array.slice(0, n); limit(0) is no limit
Take(list, n) ==
    IF n = 0 \/ n >= Len(list) THEN list ELSE SubSeq(list, 1, n)

\* products.map(product => category normalized when it has one)
NormalizeResults(list) ==
    [i \in DOMAIN list |->
        IF list[i].category # None /\ list[i].category[1] # <<>>
        THEN [list[i] EXCEPT
                !.category = Some(normalizeCategory(Str(list[i].category[1])).chars)]
        ELSE list[i]]

\* routes/products: the same map with the router's normalizeCategory
NormalizeResultsRouter(list) ==
    [i \in DOMAIN list |->
        IF list[i].category # None /\ list[i].category[1] # <<>>
        THEN [list[i] EXCEPT
                !.category = Some(normalizeCategoryRouter(Str(list[i].category[1])).chars)]
        ELSE list[i]]

\* A request parameter that is absent, or present with a text.
Given(o) == o # None /\ o[1] # <<>>

S_all == <<"a", "l", "l">>

Ok(results) == [kind |-> "ok", results |-> results]

Failed == [kind |-> "error"]

\* ---- GET /api/curated
\* the default cotton condition: 90%+ or not extracted in a curated
\* product or a product of the four categories
CuratedCottonDefault ==
    <<Gte("cottonPercentage", 90),
      And(<<InZeroNull("cottonPercentage"),
            Or(<<IsTrue("isCurated"), In("category", Taxonomy)>>)>>)>>

\* query.$or = [...] of the text search
CuratedSearchAssign(query, clauses) ==
    [query EXCEPT !["$or"] = Some(clauses)]

\* the category filter of a request: the normalized category, or null when
\* the request has none
CategoryFilterOf(category) ==
    IF Given(category) /\ category[1] # S_all
    THEN normalizeCategory(Str(category[1]))
    ELSE Null

\* the query object built by the handler
CuratedQuery(category, cottonOnly, search) ==
    LET cotton == IF cottonOnly
                  THEN [EmptyQuery EXCEPT !["cottonPercentage"] =
                          Some(GteLt("cottonPercentage", 100, 101))]
                  ELSE [EmptyQuery EXCEPT !["$or"] = Some(CuratedCottonDefault)]
        normalizedCategoryFilter == CategoryFilterOf(category)
        filtered == IF normalizedCategoryFilter # Null
                    THEN [cotton EXCEPT !["category"] =
                            Some(In("category",
                                    getCategoryVariations(normalizedCategoryFilter)))]
                    ELSE cotton
        searchTerm == toLowerCase(trim(search[1]))
        normalizedSearchCategory == normalizeCategory(Str(searchTerm))
        categoryVariations == getCategoryVariations(normalizedSearchCategory)
        text == <<Regex("name", searchTerm),
                  Regex("composition_raw", searchTerm)>>
        textOrCategory == text \o <<In("category", categoryVariations)>>
    IN  IF ~(Given(search) /\ trim(search[1]) # <<>>) THEN filtered
        ELSE IF normalizedSearchCategory # Null
             THEN IF normalizedCategoryFilter # Null
                  THEN IF normalizedSearchCategory = normalizedCategoryFilter
                       THEN CuratedSearchAssign(filtered, text)
                       ELSE CuratedSearchAssign(filtered, textOrCategory)
                  ELSE CuratedSearchAssign(filtered, textOrCategory)
             ELSE CuratedSearchAssign(filtered, text)

\* the products after normalization, filtered again by the category
CuratedFinal(products, category) ==
    LET normalizedProducts == NormalizeResults(products)
        normalizedCategory == CategoryFilterOf(category)
        Keep(p) == /\ p.category # None /\ p.category[1] # <<>>
                   /\ normalizeCategory(Str(p.category[1])) = normalizedCategory
    IN  IF normalizedCategory # Null THEN SelectSeq(normalizedProducts, Keep)
        ELSE normalizedProducts

\* The responses the handler can give on store s.
CuratedResponses(s, category, cottonOnly, search) ==
    LET query == CuratedQuery(category, cottonOnly, search)
    IN  IF ~QueryOk(query) THEN {Failed}
        ELSE {Ok(CuratedFinal(products, category)) :
                 products \in Sorted(s, find(s, query))}

\* ---- GET /api/products/search
\* the cotton condition for minCotton
RouterCotton(minCottonNum) ==
    IF minCottonNum >= 90
    THEN [EmptyQuery EXCEPT !["$or"] =
            Some(<<Gte("cottonPercentage", minCottonNum),
                   And(<<InZeroNull("cottonPercentage"),
                         In("category", Taxonomy)>>)>>)]
    ELSE [EmptyQuery EXCEPT !["cottonPercentage"] =
            Some(Gte("cottonPercentage", minCottonNum))]

\* the category filter of a request to the router
RouterCategoryFilterOf(category) ==
    IF Given(category) /\ category[1] # S_all
    THEN normalizeCategoryRouter(Str(category[1]))
    ELSE Null

\* query.$and = query.$and || []; query.$and.push({ $or: clauses })
PushAnd(query, clauses) ==
    [query EXCEPT !["$and"] =
        Some((IF query["$and"] = None THEN <<>> ELSE query["$and"][1])
             \o <<Or(clauses)>>)]

\* normalizedSearchCategory && normalizedSearchCategory !== searchTerm
IsCategoryTerm(searchTerm, normalizedSearchCategory) ==
    /\ normalizedSearchCategory # Null
    /\ normalizedSearchCategory # Str(searchTerm)

\* the query object built by the handler
RouterQuery(q, category, minCotton) ==
    LET cotton == RouterCotton(minCotton)
        normalizedCategoryFilter == RouterCategoryFilterOf(category)
        filtered == IF normalizedCategoryFilter # Null
                    THEN [cotton EXCEPT !["category"] =
                            Some(In("category",
                                    getCategoryVariationsRouter(normalizedCategoryFilter)))]
                    ELSE cotton
        searchTerm == toLowerCase(trim(q[1]))
        normalizedSearchCategory == normalizeCategoryRouter(Str(searchTerm))
        categoryVariations == getCategoryVariationsRouter(normalizedSearchCategory)
        text == <<Regex("name", searchTerm),
                  Regex("composition_raw", searchTerm),
                  Regex("color", searchTerm)>>
        textOrCategory == text \o <<In("category", categoryVariations)>>
    IN  IF ~(Given(q) /\ trim(q[1]) # <<>>) THEN filtered
        ELSE IF IsCategoryTerm(searchTerm, normalizedSearchCategory)
             THEN IF normalizedCategoryFilter # Null
                  THEN IF normalizedSearchCategory = normalizedCategoryFilter
                       THEN PushAnd(filtered, text)
                       ELSE PushAnd(filtered, textOrCategory)
                  ELSE PushAnd(filtered, textOrCategory)
             ELSE PushAnd(filtered, text)

\* the fields of a product in the router's response
RouterProduct(p) ==
    [url |-> p.url,
     name |-> p.name,
     price |-> OrNum(p.price, 0),
     cottonPercentage |-> p.cottonPercentage,
     materials |-> p.composition_raw,
     color |-> IF p.color = <<>> THEN S_Various ELSE p.color,
     category |-> p.category]

\* the products after limit, normalization and the second category filter
RouterFinal(products, category, limit) ==
    LET normalized == NormalizeResultsRouter(Take(products, limit))
        normalizedCategoryFilter == RouterCategoryFilterOf(category)
        Keep(p) == /\ p.category # None /\ p.category[1] # <<>>
                   /\ normalizeCategoryRouter(Str(p.category[1]))
                        = normalizedCategoryFilter
        kept == IF normalizedCategoryFilter # Null
                THEN SelectSeq(normalized, Keep) ELSE normalized
    IN  [i \in DOMAIN kept |-> RouterProduct(kept[i])]

\* The responses the handler can give on store s.
RouterResponses(s, q, category, minCotton, limit) ==
    LET query == RouterQuery(q, category, minCotton)
    IN  IF ~QueryOk(query) THEN {Failed}
        ELSE {Ok(RouterFinal(products, category, limit)) :
                 products \in Sorted(s, find(s, query))}

\* ---- findCottonProducts
\* the query object built from the filters
CottonQuery(filters) ==
    LET base == [EmptyQuery EXCEPT !["is_cotton_90"] = Some(IsTrue("is_cotton_90"))]
        byCategory == IF Given(filters.category)
                      THEN [base EXCEPT !["category"] =
                              Some(Regex("category", filters.category[1]))]
                      ELSE base
        byPrice == IF filters.maxPrice # None
                   THEN [byCategory EXCEPT !["price"] =
                           Some(Lte("price", filters.maxPrice[1]))]
                   ELSE byCategory
    IN  IF Given(filters.searchQuery)
        THEN [byPrice EXCEPT !["$or"] =
                Some(<<Regex("name", filters.searchQuery[1]),
                       Regex("composition_raw", filters.searchQuery[1])>>)]
        ELSE byPrice

\* The lists findCottonProducts(filters) can return on store s.
findCottonProducts(s, filters) ==
    {Ok(products) : products \in Sorted(s, find(s, CottonQuery(filters)))}

\* ---- the requests
CategoryParams ==
    {None, Some(S_tops), Some(<<"P", "a", "n", "t", "s">>), Some(S_all), Some(S_jackets),
     Some(<<"c", "o", "n", "s", "t", "r", "u", "c", "t", "o", "r">>)}

SearchParams ==
    {None, Some(S_tops), Some(W_jeans), Some(<<"c", "r", "e", "w">>), Some(<<" ">>)}

MinCottonParams == {90, 50}

LimitParams == {50, 1}

CottonFilters ==
    [category : {None, Some(S_pant)}, maxPrice : {None, Some(30)},
     searchQuery : {None, Some(S_tee)}]

\* GET /api/curated answered.
CuratedCall ==
    /\ qIn = NoCall
    /\ \E category \in CategoryParams, cottonOnly \in BOOLEAN,
          search \in SearchParams :
          /\ qIn' = [endpoint |-> "curated", category |-> category,
                     cottonOnly |-> cottonOnly, search |-> search]
          /\ qOut' \in CuratedResponses(store, category, cottonOnly, search)
    /\ UNCHANGED <<store, now, run, pIn, pOut, bIn, bOut, cIn, cOut, vIn,
                   vOut, ingestVars, serviceVars>>

\* GET /api/products/search answered.
RouterCall ==
    /\ qIn = NoCall
    /\ \E category \in CategoryParams, q \in SearchParams,
          minCotton \in MinCottonParams, limit \in LimitParams :
          /\ qIn' = [endpoint |-> "search", category |-> category,
                     search |-> q, minCotton |-> minCotton, limit |-> limit]
          /\ qOut' \in RouterResponses(store, q, category, minCotton, limit)
    /\ UNCHANGED <<store, now, run, pIn, pOut, bIn, bOut, cIn, cOut, vIn,
                   vOut, ingestVars, serviceVars>>

\* findCottonProducts(filters) returned.
FindCottonCall ==
    /\ qIn = NoCall
    /\ \E filters \in CottonFilters :
          /\ qIn' = [endpoint |-> "findCottonProducts", filters |-> filters]
          /\ qOut' \in findCottonProducts(store, filters)
    /\ UNCHANGED <<store, now, run, pIn, pOut, bIn, bOut, cIn, cOut, vIn,
                   vOut, ingestVars, serviceVars>>

\* -------------------------------------------------------- scraping runs
MaxUrls == 2     \* URLs of a curated list

\* What extractProductInfo meets at a URL: a product page with its data, a
\* page that cannot be loaded or evaluated (caught inside, null is
\* returned), or a failure that leaves extractProductInfo as a rejection.
Page(name, materials) ==
    [kind |-> "page",
     productData |-> [name |-> name, price |-> Some(30), materials |-> materials]]

Unreachable == [kind |-> "unreachable"]

Throws == [kind |-> "throws"]

CottonPage == Page(<<"C", "o", "t", "t", "o", "n", " ", "C", "r", "e", "w", " ", "T", "e", "e">>, PageMaterialsShell)

BlendPage == Page(<<"B", "l", "u", "e", " ", "D", "e", "n", "i", "m", " ", "J", "e", "a", "n", "s">>, M_Blend)

NamelessPage == Page(<<>>, M_Cotton100)

\* extractProductInfo(url, page) at a URL with that outcome: the product
\* or null.  (Throws is handled by the caller's try.)
Extracted(url, outcome) ==
    IF outcome.kind = "page" THEN extractProductInfo(url, outcome.productData)
    ELSE Null

\* product.is_cotton_90 || product.cottonPercentage >= 90
CottonQualified(product) ==
    product.is_cotton_90 \/ product.cottonPercentage >= 90

\* ---- scrape-curated-urls.js
\* Object.entries(CURATED_URLS): the buckets in the order of the literal
CuratedBuckets == <<S_tops, S_pants, S_skirts, S_dresses>>

\* URLs as the lists give them, with query string or fragment
CuratedUrls ==
    <<ZaraBase \o <<"/", "i", "t", "e", "m", "-", "p", "0", "1", "0", "0", ".", "h", "t", "m", "l", "?", "v", "1", "=", "5", "0", "3", "4">>,
      ZaraBase \o <<"/", "i", "t", "e", "m", "-", "p", "0", "2", "0", "0", ".", "h", "t", "m", "l", "?", "v", "1", "=", "5", "0", "3", "5", "&", "v", "2", "=", "2", "4">>,
      ZaraBase \o <<"/", "i", "t", "e", "m", "-", "p", "0", "3", "0", "0", ".", "h", "t", "m", "l", "#", "d", "e", "t", "a", "i", "l", "s">>>>

\* the index of the first '?' or '#' of url from p on (Len + 1 if none)
RECURSIVE CutAt(_, _)
CutAt(url, p) ==
    IF p > Len(url) \/ url[p] \in {"?", "#"} THEN p ELSE CutAt(url, p + 1)

\* urls[i].split('?')[0].split('#')[0]
cleanUrl(url) == SubSeq(url, 1, CutAt(url, 1) - 1)

\* The curated lists: up to MaxUrls URLs, bucket after bucket.
CuratedLists ==
    {[k \in 1..Len(bs) |-> [category |-> CuratedBuckets[bs[k]],
                            url |-> CuratedUrls[k]]] :
        bs \in {b \in SeqsUpTo(1..Len(CuratedBuckets), MaxUrls) :
                  \A k \in 1..(Len(b) - 1) : b[k] <= b[k + 1]}}

\* scrape-curated-urls.js: the colors array, in its order
ColorsCurated ==
    <<<<"b", "l", "a", "c", "k">>, <<"w", "h", "i", "t", "e">>, <<"b", "l", "u", "e">>, <<"r", "e", "d">>, <<"g", "r", "e", "e", "n">>, <<"n", "a", "v", "y">>, <<"g", "r", "e", "y">>, <<"g", "r", "a", "y">>,
      <<"b", "e", "i", "g", "e">>, <<"b", "r", "o", "w", "n">>, <<"p", "i", "n", "k">>, <<"y", "e", "l", "l", "o", "w">>, <<"s", "t", "r", "i", "p", "e", "d">>, <<"f", "l", "o", "r", "a", "l">>, <<"p", "l", "a", "i", "d">>,
      <<"a", "n", "i", "m", "a", "l", " ", "p", "r", "i", "n", "t">>>>

\* color.split(' ').map(capitalize).join(' ')
RECURSIVE CapitalizeWords(_, _)
CapitalizeWords(s, atStart) ==
    IF s = <<>> THEN <<>>
    ELSE <<IF atStart THEN UpperChar(s[1]) ELSE s[1]>>
         \o CapitalizeWords(Tail(s), s[1] = " ")

\* the for loop of the curated extractColor from colors[k] on
RECURSIVE ColorCuratedFrom(_, _)
ColorCuratedFrom(text, k) ==
    IF k > Len(ColorsCurated) THEN S_Various
    ELSE IF includes(text, ColorsCurated[k])
         THEN CapitalizeWords(ColorsCurated[k], TRUE)
         ELSE ColorCuratedFrom(text, k + 1)

\* scrape-curated-urls.js extractColor(name, description)
extractColorCurated(name, description) ==
    ColorCuratedFrom(toLowerCase(name \o <<" ">> \o description), 1)

\* the category of a curated product: the if / else-if chain over the
\* product name and the bucket
CuratedCategory(nameLower, category) ==
    IF \/ includes(nameLower, S_t_shirt) \/ includes(nameLower, S_tshirt)
       \/ includes(nameLower, S_tee) \/ includes(nameLower, S_blouse)
       \/ includes(nameLower, S_shirt) \/ category = S_tops
    THEN S_tops
    ELSE IF \/ includes(nameLower, S_pant) \/ includes(nameLower, S_jean)
            \/ includes(nameLower, S_trouser) \/ category = S_pants
    THEN S_pants
    ELSE IF includes(nameLower, S_skirt) \/ category = S_skirts
    THEN S_skirts
    ELSE IF includes(nameLower, S_dress) \/ category = S_dresses
    THEN S_dresses
    ELSE category

\* the product pushed to allProducts: color, category and the curated mark
CuratedProduct(product, category) ==
    [product EXCEPT
        !.category = CuratedCategory(toLowerCase(product.name), category)]
    @@ [color |-> extractColorCurated(product.name, product.materials),
        isCurated |-> TRUE]

\* What the curated URLs lead to.
CuratedOutcomes ==
    {Page(<<"C", "r", "e", "w", " ", "T", "e", "e">>, M_Cotton100),
     Page(<<"S", "l", "i", "m", " ", "J", "e", "a", "n", "s">>, M_Cotton100),
     Page(<<"P", "l", "e", "a", "t", "e", "d", " ", "M", "i", "d", "i", " ", "S", "k", "i", "r", "t">>, M_Cotton95),
     Page(<<"P", "l", "a", "i", "d", " ", "S", "h", "i", "r", "t", " ", "D", "r", "e", "s", "s">>, M_Cotton100),
     Page(<<"S", "p", "o", "r", "t", "y", " ", "J", "o", "g", "g", "e", "r", "s">>, M_Blend),
     NamelessPage, Unreachable, Throws}

\* scrapeCuratedUrls() entered: browser and page are ready.
CuratedStart ==
    /\ job = NoJob
    /\ \E list \in CuratedLists :
          job' = [kind |-> "curated", list |-> list, i |-> 1,
                  allProducts |-> <<>>, seen |-> <<>>,
                  pc |-> IF list = <<>> THEN "returned" ELSE "loop"]
    /\ UNCHANGED <<store, now, run, pIn, pOut, bIn, bOut, cIn, cOut,
                   catalogVars, serviceVars>>

\* One iteration of the inner for loop: the URL is cleaned, extracted
\* and, when a product came back, completed and pushed.  When the try
\* block throws, the catch block evaluates `${url}`; no url is declared in
\* scrapeCuratedUrls or at module level, so the catch block throws a
\* ReferenceError, which leaves both loops by the outer catch: the browser
\* is closed and allProducts is returned as it is.
CuratedStep ==
    /\ job.kind = "curated"
    /\ job.pc = "loop"
    /\ \E outcome \in CuratedOutcomes :
          LET entry == job.list[job.i]
              product == Extracted(cleanUrl(entry.url), outcome)
              last == job.i = Len(job.list)
          IN  job' =
                IF outcome.kind = "throws"
                THEN [job EXCEPT !.seen = Append(@, "threw"),
                                 !.pc = "returned"]
                ELSE IF product # Null
                THEN [job EXCEPT
                        !.allProducts =
                            Append(@, CuratedProduct(product, entry.category)),
                        !.seen = Append(@, "product"),
                        !.i = IF last THEN @ ELSE @ + 1,
                        !.pc = IF last THEN "returned" ELSE "loop"]
                ELSE [job EXCEPT
                        !.seen = Append(@, "null"),
                        !.i = IF last THEN @ ELSE @ + 1,
                        !.pc = IF last THEN "returned" ELSE "loop"]
    /\ UNCHANGED <<store, now, run, pIn, pOut, bIn, bOut, cIn, cOut,
                   catalogVars, serviceVars>>

\* ---- scraper.js scrapeZaraCategory, scrapeAllZaraProducts
MaxCount == 2      \* target count of a category run
MaxListing == 4    \* product links on a category page

\* ZaraScraper.categoryMappings: the genders each category has a page for,
\* in the key order of the literal
categoryMappings ==
    <<[category |-> S_shirts, genders |-> <<S_male, S_female>>],
      [category |-> S_pants, genders |-> <<S_male, S_female>>],
      [category |-> S_dresses, genders |-> <<S_female>>],
      [category |-> S_tshirts, genders |-> <<S_male, S_female>>],
      [category |-> S_tops, genders |-> <<S_female>>],
      [category |-> S_skirts, genders |-> <<S_female>>],
      [category |-> S_jackets, genders |-> <<S_male, S_female>>]>>

HasPage(category, gender) ==
    \E k \in DOMAIN categoryMappings :
        /\ categoryMappings[k].category = category
        /\ gender \in Range(categoryMappings[k].genders)

\* The k-th product link of a category page.
ListingUrl(k) ==
    ZaraBase \o <<"/", "i", "t", "e", "m", "-", "p", "0">> \o <<DigitChars[k + 1]>> \o <<"0", "0", ".", "h", "t", "m", "l">>

\* ZaraScraper.getProductUrls(category, gender, limit) on a page holding
\* `found` links: none for an unknown category or gender, else the first
\* `limit` of them.
getProductUrls(category, gender, limit, found) ==
    IF ~HasPage(category, gender) THEN <<>>
    ELSE Take([k \in 1..found |-> ListingUrl(k)], limit)

\* What stands behind the links of a category page.
ListingOutcomes == {CottonPage, BlendPage, Unreachable, Throws}

\* Tasks of scrapeAllZaraProducts a run is started for.
ScrapingTasks ==
    {[category |-> S_tshirts, gender |-> S_male],
     [category |-> S_dresses, gender |-> S_female]}

\* scrapeZaraCategory(category, gender, count) entered by a task of
\* scrapeAllZaraProducts: the URLs are requested, and [] is returned at
\* once when there are none.
CategoryStart ==
    /\ job = NoJob
    /\ \E task \in ScrapingTasks, count \in 1..MaxCount,
          listing \in SeqsUpTo(ListingOutcomes, MaxListing) :
          LET productUrls == getProductUrls(task.category, task.gender,
                                            count * 2, Len(listing))
          IN  job' = [kind |-> "category", category |-> task.category,
                      gender |-> task.gender, count |-> count,
                      requested |-> count * 2, listing |-> listing,
                      productUrls |-> productUrls, i |-> 1,
                      products |-> <<>>, productsFound |-> 0,
                      seen |-> <<>>, cottonProducts |-> <<>>,
                      pc |-> IF productUrls = <<>> THEN "scraped" ELSE "loop"]
    /\ UNCHANGED <<store, now, run, pIn, pOut, bIn, bOut, cIn, cOut,
                   catalogVars, serviceVars>>

\* One iteration of the for loop of scrapeZaraCategory, with the test
\* that ends the loop before the next one (productsFound >= count, or no
\* URL left).
CategoryStep ==
    /\ job.kind = "category"
    /\ job.pc = "loop"
    /\ LET url == job.productUrls[job.i]
           outcome == job.listing[job.i]
           product == Extracted(url, outcome)
           kept == /\ outcome.kind # "throws"
                   /\ product # Null
                   /\ product.name # <<>>
                   /\ product.name # S_UnknownProduct
           found == IF kept THEN job.productsFound + 1 ELSE job.productsFound
           done == found >= job.count \/ job.i = Len(job.productUrls)
       IN  job' = [job EXCEPT
                     !.products =
                         IF kept
                         THEN Append(@, product @@
                                  [color |-> extractColor(product.name,
                                                          product.materials)])
                         ELSE @,
                     !.productsFound = found,
                     !.seen = Append(@, IF outcome.kind = "throws" THEN "threw"
                                        ELSE IF product = Null THEN "null"
                                        ELSE IF kept THEN "product"
                                        ELSE "invalid"),
                     !.i = IF done THEN @ ELSE @ + 1,
                     !.pc = IF done THEN "scraped" ELSE "loop"]
    /\ UNCHANGED <<store, now, run, pIn, pOut, bIn, bOut, cIn, cOut,
                   catalogVars, serviceVars>>

\* scrapeAllZaraProducts once scrapeZaraCategory has returned: the
\* products are filtered for 90%+ cotton.
CategoryFilter ==
    /\ job.kind = "category"
    /\ job.pc = "scraped"
    /\ job' = [job EXCEPT
                 !.cottonProducts = SelectSeq(job.products, CottonQualified),
                 !.pc = "returned"]
    /\ UNCHANGED <<store, now, run, pIn, pOut, bIn, bOut, cIn, cOut,
                   catalogVars, serviceVars>>

\* ---- zaraScraper.js ZaraScraper.searchProducts
MaxLimit == 3      \* limit of a free-text search

\* Math.ceil(a / b)
Ceil(a, b) == (a + b - 1) \div b

S_spaceTee == <<" ", "t", "e", "e">>
S_tees == <<"t", "e", "e", "s">>
S_WOMAN == <<"W", "O", "M", "A", "N">>
S_MAN == <<"M", "A", "N">>

\* Routing with the generic keyword tested first.
matchCategoryShirtFirst(queryLower) ==
    IF includes(queryLower, S_shirt)
    THEN [category |-> S_shirts, genders |-> <<S_male, S_female>>]
    ELSE IF includes(queryLower, S_t_shirt) \/ includes(queryLower, S_tshirt)
            \/ includes(queryLower, S_spaceTee)
    THEN [category |-> S_tshirts, genders |-> <<S_male, S_female>>]
    ELSE Null

\* The keyword chain of searchProducts: matchedCategory and
\* matchedGenders, or null when no keyword matches.
matchCategory(queryLower) ==
    IF queryLower \in {S_t_shirt, S_tshirt, S_tee, S_tees}
    THEN [category |-> S_tshirts, genders |-> <<S_male, S_female>>]
    ELSE IF includes(queryLower, S_t_shirt) \/ includes(queryLower, S_tshirt)
            \/ includes(queryLower, S_spaceTee)
    THEN [category |-> S_tshirts, genders |-> <<S_male, S_female>>]
    ELSE IF includes(queryLower, S_shirt) /\ ~includes(queryLower, S_t_shirt)
    THEN [category |-> S_shirts, genders |-> <<S_male, S_female>>]
    ELSE IF includes(queryLower, S_dress)
    THEN [category |-> S_dresses, genders |-> <<S_female>>]
    ELSE IF includes(queryLower, S_trouser) \/ includes(queryLower, S_pant)
    THEN [category |-> S_pants, genders |-> <<S_male, S_female>>]
    ELSE IF includes(queryLower, S_top) /\ ~includes(queryLower, S_t_shirt)
    THEN [category |-> S_tops, genders |-> <<S_female>>]
    ELSE IF includes(queryLower, S_skirt)
    THEN [category |-> S_skirts, genders |-> <<S_female>>]
    ELSE IF includes(queryLower, S_jacket)
    THEN [category |-> S_jackets, genders |-> <<S_male, S_female>>]
    ELSE Null

\* One pass of a gender or section loop: where the URLs are asked for, how
\* many are asked for and how many of them are looked at.
SearchPass(source, category, gender, request, take) ==
    [source |-> source, category |-> category, gender |-> gender,
     request |-> request, take |-> take]

\* the passes of one category of the default branch, gender after gender
DefaultPasses(k, perCategory) ==
    LET genders == categoryMappings[k].genders
    IN  [g \in 1..Len(genders) |->
            SearchPass("category", categoryMappings[k].category, genders[g],
                       perCategory, Ceil(perCategory, Len(genders)))]

\* The branch searchProducts(query, limit) takes and the passes of its
\* loops in order: the search URL for a query holding "cotton", the
\* matched category, or the first three categories of categoryMappings.
SearchPlan(query, limit) ==
    LET queryLower == trim(toLowerCase(query))
        matched == matchCategory(queryLower)
    IN  IF includes(queryLower, S_cotton)
        THEN [route |-> "cotton",
              passes |-> <<SearchPass("search", S_cotton, S_WOMAN, limit * 2,
                                      Ceil(limit, 2)),
                           SearchPass("search", S_cotton, S_MAN, limit * 2,
                                      Ceil(limit, 2))>>]
        ELSE IF matched # Null
        THEN [route |-> "category",
              passes |->
                  LET genders == SelectSeq(matched.genders,
                                     LAMBDA g : HasPage(matched.category, g))
                  IN  [g \in 1..Len(genders) |->
                          SearchPass("category", matched.category, genders[g],
                                     limit * 2,
                                     Ceil(limit, Len(matched.genders)))]]
        ELSE [route |-> "default",
              passes |-> DefaultPasses(1, Ceil(limit, 3))
                         \o DefaultPasses(2, Ceil(limit, 3))
                         \o DefaultPasses(3, Ceil(limit, 3))]

\* The j-th product link of the page of pass r.
SearchUrl(r, j) ==
    ZaraBase \o <<"/", "i", "t", "e", "m", "-", "p", "0">> \o <<DigitChars[r + 1], DigitChars[j + 1]>>
    \o <<"0", ".", "h", "t", "m", "l">>

\* What stands behind the links a search looks at.
SearchOutcomes == {CottonPage, BlendPage, Unreachable, Throws}

\* The inner for loop with a catch that hands back an empty list.
RECURSIVE ExtractAllDiscarding(_, _, _, _, _)
ExtractAllDiscarding(products, urls, outcomes, k, limit) ==
    IF k > Len(urls) \/ Len(products) >= limit
    THEN [products |-> products, threw |-> FALSE]
    ELSE IF outcomes[k].kind = "throws"
    THEN [products |-> <<>>, threw |-> TRUE]
    ELSE LET product == Extracted(urls[k], outcomes[k])
         IN  ExtractAllDiscarding(IF product # Null /\ CottonQualified(product)
                                  THEN Append(products, product) ELSE products,
                                  urls, outcomes, k + 1, limit)

\* The inner for loop over urls from the k-th on: products.length >= limit
\* ends it, a rejection of extractProductInfo leaves it for the catch of
\* searchProducts, a cotton-qualified product is pushed.
RECURSIVE ExtractAll(_, _, _, _, _)
ExtractAll(products, urls, outcomes, k, limit) ==
    IF k > Len(urls) \/ Len(products) >= limit
    THEN [products |-> products, threw |-> FALSE]
    ELSE IF outcomes[k].kind = "throws"
    THEN [products |-> products, threw |-> TRUE]
    ELSE LET product == Extracted(urls[k], outcomes[k])
         IN  ExtractAll(IF product # Null /\ CottonQualified(product)
                        THEN Append(products, product) ELSE products,
                        urls, outcomes, k + 1, limit)

SearchQueries ==
    {<<"t", "-", "s", "h", "i", "r", "t">>,
     <<"G", "r", "a", "p", "h", "i", "c", " ", "T", "s", "h", "i", "r", "t">>,
     <<"W", "h", "i", "t", "e", " ", "T", "e", "e", " ", "S", "h", "i", "r", "t">>,
     <<"c", "o", "t", "t", "o", "n", " ", "t", "-", "s", "h", "i", "r", "t">>,
     <<"L", "i", "n", "e", "n", " ", "S", "h", "i", "r", "t">>,
     <<"C", "o", "t", "t", "o", "n", " ", "S", "h", "i", "r", "t">>,
     <<"s", "w", "e", "a", "t", "s", "h", "i", "r", "t">>,
     <<" ", "M", "i", "d", "i", " ", "D", "r", "e", "s", "s", " ">>,
     <<"c", "r", "o", "p", " ", "t", "o", "p">>,
     <<"j", "e", "a", "n", "s">>,
     <<"s", "o", "c", "k", "s">>,
     <<"o", "r", "g", "a", "n", "i", "c", " ", "c", "o", "t", "t", "o", "n">>}

\* searchProducts(query, limit) entered: the branch is chosen and the
\* browser is ready.
SearchStart ==
    /\ job = NoJob
    /\ \E query \in SearchQueries, limit \in 1..MaxLimit :
          LET plan == SearchPlan(query, limit)
          IN  job' = [kind |-> "search", query |-> query, limit |-> limit,
                      route |-> plan.route, passes |-> plan.passes, r |-> 1,
                      products |-> <<>>, requests |-> <<>>, threw |-> FALSE,
                      pc |-> "loop"]
    /\ UNCHANGED <<store, now, run, pIn, pOut, bIn, bOut, cIn, cOut,
                   catalogVars, serviceVars>>

\* One pass of the gender or section loop.  The cotton and the default
\* branch leave their loops before the pass when limit products are
\* there; otherwise the URLs are asked for, the first `take` of them are
\* extracted, and the search returns after the last pass or a rejection.
SearchStep ==
    /\ job.kind = "search"
    /\ job.pc = "loop"
    /\ LET pass == job.passes[job.r]
       IN  IF job.route # "category" /\ Len(job.products) >= job.limit
           THEN job' = [job EXCEPT !.pc = "returned"]
           ELSE \E found \in 0..MaxListing :
                  LET urls == Take(Take([j \in 1..found |-> SearchUrl(job.r, j)],
                                        pass.request), pass.take)
                  IN  \E outcomes \in [1..Len(urls) -> SearchOutcomes] :
                        LET out == ExtractAll(job.products, urls, outcomes, 1,
                                              job.limit)
                            last == job.r = Len(job.passes)
                        IN  job' = [job EXCEPT
                                      !.products = Take(out.products, job.limit),
                                      !.requests = Append(@,
                                          [source |-> pass.source,
                                           category |-> pass.category,
                                           gender |-> pass.gender,
                                           limit |-> pass.request]),
                                      !.threw = out.threw,
                                      !.r = IF last \/ out.threw THEN @ ELSE @ + 1,
                                      !.pc = IF last \/ out.threw THEN "returned"
                                             ELSE "loop"]
    /\ UNCHANGED <<store, now, run, pIn, pOut, bIn, bOut, cIn, cOut,
                   catalogVars, serviceVars>>

\* ------------------------------------------------------------- services
\* new NodeCache({ stdTTL: 3600 }) with nothing stored
EmptyCache == <<>>

NoService == [kind |-> "none", n |-> 0]

\* ---- db/mongoClient.js
MaxConnects == 3   \* connect() calls that can be under way at once

\* let client = null; let db = null; no call made
Disconnected ==
    [client |-> "null", db |-> "null",
     calls |-> [c \in 1..MaxConnects |-> "none"],
     closing |-> FALSE, connected |-> FALSE, got |-> "none"]

\* connect() returning the client it finds without waiting for it.
ReturnsClientAtOnce(c) == c.client # "null"

\* connect() entered by caller k: a client that is already there is
\* returned at once (the call resolves); otherwise a MongoClient is
\* created and assigned, and the call waits for client.connect().
ConnectCall(k) ==
    /\ conn.calls[k] \in {"none", "resolved", "rejected"}
    /\ conn' = IF ReturnsClientAtOnce(conn)
               THEN [conn EXCEPT !.calls[k] = "resolved", !.connected = TRUE]
               ELSE [conn EXCEPT !.calls[k] = "pending", !.client = "set"]
    /\ UNCHANGED <<store, now, run, pIn, pOut, bIn, bOut, cIn, cOut,
                   catalogVars, ingestVars, cache, svc>>

\* client.connect() resolved for caller k: db = client.db(MONGO_DB) and
\* the call resolves; with client reset to null meanwhile the assignment
\* throws and the call rejects.
ConnectResolve(k) ==
    /\ conn.calls[k] = "pending"
    /\ conn' = IF conn.client = "null"
               THEN [conn EXCEPT !.calls[k] = "rejected"]
               ELSE [conn EXCEPT !.calls[k] = "resolved", !.db = "set",
                                 !.connected = TRUE]
    /\ UNCHANGED <<store, now, run, pIn, pOut, bIn, bOut, cIn, cOut,
                   catalogVars, ingestVars, cache, svc>>

\* client.connect() rejected for caller k: the error is logged and thrown
\* again; client keeps the MongoClient that failed.
ConnectReject(k) ==
    /\ conn.calls[k] = "pending"
    /\ conn' = [conn EXCEPT !.calls[k] = "rejected"]
    /\ UNCHANGED <<store, now, run, pIn, pOut, bIn, bOut, cIn, cOut,
                   catalogVars, ingestVars, cache, svc>>

\* disconnect() called: with a client it waits for client.close().
DisconnectCall ==
    /\ ~conn.closing
    /\ conn' = [conn EXCEPT !.closing = (conn.client # "null"),
                            !.connected = FALSE]
    /\ UNCHANGED <<store, now, run, pIn, pOut, bIn, bOut, cIn, cOut,
                   catalogVars, ingestVars, cache, svc>>

\* client.close() resolved: client = null; db = null.
DisconnectDone ==
    /\ conn.closing
    /\ conn' = [conn EXCEPT !.closing = FALSE, !.client = "null",
                            !.db = "null", !.connected = FALSE]
    /\ UNCHANGED <<store, now, run, pIn, pOut, bIn, bOut, cIn, cOut,
                   catalogVars, ingestVars, cache, svc>>

\* getDb(): the database, or 'Database not connected. Call connect() first.'
getDb(c) == IF c.db = "null" THEN "throws" ELSE "db"

\* getDb() or getAritziaCollection() called.
GetDbCall ==
    /\ conn.got # getDb(conn)
    /\ conn' = [conn EXCEPT !.got = getDb(conn)]
    /\ UNCHANGED <<store, now, run, pIn, pOut, bIn, bOut, cIn, cOut,
                   catalogVars, ingestVars, cache, svc>>

\* ---- scraper.js searchZara and its cache
MaxServiceCalls == 2   \* service calls in a row
MaxScraped == 2        \* products one scrape returns

DefaultLimit == 10     \* searchZara(query, limit = 10)

\* a number below 100 inside a template string
ToText(n) ==
    IF n < 10 THEN <<DigitChars[n + 1]>>
    ELSE <<DigitChars[(n \div 10) + 1], DigitChars[(n % 10) + 1]>>

\* `zara_search_${query.toLowerCase()}_${limit}`
CacheKey(query, limit) ==
    <<"z", "a", "r", "a", "_", "s", "e", "a", "r", "c", "h", "_">> \o toLowerCase(query) \o <<"_">> \o ToText(limit)

\* cache.get(key): the stored list or undefined
CacheGet(c, key) == IF key \in DOMAIN c THEN Some(c[key]) ELSE None

\* cache.set(key, list)
CacheSet(c, key, list) == (key :> list) @@ c

\* Every result written to the cache, the empty ones too.
CacheableAlways(products) == TRUE

\* if (productsWithColor.length > 0) before cache.set
Cacheable(products) == Len(products) > 0

\* The products a scrape can find, in the order it returns them.
Scraped == <<CatalogTee, CatalogBlouse, CatalogJacket>>

\* scraper.searchProducts(query, limit): a rejection, or at most limit
\* products.
ScrapeOutcomes(limit) ==
    {[kind |-> "throws"]} \cup
    {[kind |-> "products", products |-> SubSeq(Scraped, 1, n)] :
        n \in {k \in 0..MaxScraped : k <= limit /\ k <= Len(Scraped)}}

\* products.map(product => ({ ...product, color: extractColor(...) }))
WithColor(products) ==
    [k \in 1..Len(products) |->
        [products[k] EXCEPT
            !.color = Some(extractColor(products[k].name,
                                        OrStr(products[k].materials, <<>>)))]]

\* getMockProducts: allProducts
MockProducts ==
    <<[url |-> "m1", name |-> <<"E", "s", "s", "e", "n", "t", "i", "a", "l", " ", "C", "o", "t", "t", "o", "n", " ", "T", "-", "S", "h", "i", "r", "t">>, price |-> Some(25),
       category |-> Some(S_tshirts), materials |-> Some(M_Cotton100),
       cottonPercentage |-> Some(100), is_cotton_90 |-> None,
       color |-> Some(<<"B", "l", "a", "c", "k">>), isCurated |-> FALSE, gender |-> S_male],
      [url |-> "m2", name |-> <<"P", "r", "e", "m", "i", "u", "m", " ", "C", "o", "t", "t", "o", "n", " ", "S", "h", "i", "r", "t">>, price |-> Some(39),
       category |-> Some(S_shirts), materials |-> Some(M_Cotton95),
       cottonPercentage |-> Some(95), is_cotton_90 |-> None,
       color |-> Some(<<"W", "h", "i", "t", "e">>), isCurated |-> FALSE, gender |-> S_female],
      [url |-> "m3", name |-> <<"C", "o", "t", "t", "o", "n", " ", "M", "i", "d", "i", " ", "D", "r", "e", "s", "s">>, price |-> Some(59),
       category |-> Some(S_dresses), materials |-> Some(<<"9", "2", "%", " ", "C", "o", "t", "t", "o", "n", ",", " ", "8", "%", " ", "P", "o", "l", "y", "e", "s", "t", "e", "r">>),
       cottonPercentage |-> Some(92), is_cotton_90 |-> None,
       color |-> Some(S_Blue), isCurated |-> FALSE, gender |-> S_female]>>

\* queryLower.split(' '): the pieces between single spaces, from p on
RECURSIVE SplitSpaces(_, _, _)
SplitSpaces(s, p, word) ==
    IF p > Len(s) THEN <<word>>
    ELSE IF s[p] = " " THEN <<word>> \o SplitSpaces(s, p + 1, <<>>)
    ELSE SplitSpaces(s, p + 1, Append(word, s[p]))

\* getMockProducts(query): the mock products one of whose name, color,
\* category or gender holds a word of the query
getMockProducts(query) ==
    LET queryWords == SplitSpaces(toLowerCase(query), 1, <<>>)
        Hit(product) ==
            LET searchText == toLowerCase(product.name \o <<" ">>
                                  \o product.color[1] \o <<" ">>
                                  \o product.category[1] \o <<" ">>
                                  \o product.gender)
            IN  \E k \in DOMAIN queryWords : includes(searchText, queryWords[k])
    IN  SelectSeq(MockProducts, Hit)

\* searchZara(query, limit) on cache c when the scraper, if asked, ends
\* with outcome: what is returned, the cache afterwards and what was done.
searchZara(c, query, limit, outcome) ==
    LET key == CacheKey(query, limit)
        cached == CacheGet(c, key)
        call == [query |-> query, limit |-> limit, key |-> key,
                 before |-> c]
    IN  IF cached # None
        THEN call @@ [scraped |-> FALSE, outcome |-> "cached",
                      result |-> cached[1], after |-> c]
        ELSE IF outcome.kind = "throws"
        THEN call @@ [scraped |-> TRUE, outcome |-> "mock",
                      result |-> getMockProducts(query), after |-> c]
        ELSE LET productsWithColor == WithColor(outcome.products)
             IN  call @@ [scraped |-> TRUE, outcome |-> "products",
                          result |-> productsWithColor,
                          after |-> IF Cacheable(productsWithColor)
                                    THEN CacheSet(c, key, productsWithColor)
                                    ELSE c]

ServiceQueries == {<<"S", "h", "i", "r", "t">>, <<"s", "h", "i", "r", "t">>, <<"s", "o", "c", "k", "s">>}

ServiceLimits == {DefaultLimit, 1}

\* searchZara(query, limit) called and returned.
SearchZaraCall ==
    /\ svc.n < MaxServiceCalls
    /\ \E query \in ServiceQueries, limit \in ServiceLimits :
          \E outcome \in ScrapeOutcomes(limit) :
              LET call == searchZara(cache, query, limit, outcome)
              IN  /\ svc' = [kind |-> "searchZara", n |-> svc.n + 1,
                             calls |-> <<call>>, status |-> "ok",
                             results |-> call.result]
                  /\ cache' = call.after
    /\ UNCHANGED <<store, now, run, pIn, pOut, bIn, bOut, cIn, cOut,
                   catalogVars, ingestVars, conn>>

\* stdTTL: an entry is an hour old and leaves the cache.
CacheExpire ==
    /\ \E key \in DOMAIN cache :
          cache' = [k \in DOMAIN cache \ {key} |-> cache[k]]
    /\ UNCHANGED <<store, now, run, pIn, pOut, bIn, bOut, cIn, cOut,
                   catalogVars, ingestVars, svc, conn>>

\* ---- scraper.js searchZaraAndSave, server.js POST /api/scrape, GET /api/search
\* bulkUpsertProducts(products) on store s from the k-th product on, the
\* failAt-th upsert failing (0: none fails): the store it leaves behind.
RECURSIVE UpsertFrom(_, _, _, _, _)
UpsertFrom(s, products, k, failAt, ts) ==
    IF k > Len(products) \/ k = failAt THEN s
    ELSE UpsertFrom(upsertProduct(s, products[k], ts), products, k + 1,
                    failAt, ts)

\* searchZaraAndSave(query): searchZara without a limit, the products
\* saved when there are any, and in the catch block searchZara once more.
\* A limit handed in by the caller has no parameter to land in.
searchZaraAndSave(c, s, query, first, failAt, second, ts) ==
    LET call1 == searchZara(c, query, DefaultLimit, first)
        products == call1.result
        fails == Len(products) > 0 /\ failAt \in 1..Len(products)
        call2 == searchZara(call1.after, query, DefaultLimit, second)
    IN  [calls |-> IF fails THEN <<call1, call2>> ELSE <<call1>>,
         results |-> IF fails THEN call2.result ELSE products,
         cache |-> IF fails THEN call2.after ELSE call1.after,
         store |-> IF Len(products) > 0
                   THEN UpsertFrom(s, products, 1, failAt, ts) ELSE s,
         storeFailed |-> fails,
         written |-> IF fails THEN failAt - 1 ELSE Len(products)]

\* scrapeZaraCategory(category, gender, count): at most count products
\* with a valid name, cotton or not.
CategoryScraped == <<CatalogTee, CatalogJeans, CatalogPalazzo>>

CategoryOutcomes(count) ==
    {SubSeq(WithColor(CategoryScraped), 1, n) :
        n \in {k \in 0..MaxScraped : k <= count /\ k <= Len(CategoryScraped)}}

\* Queries sent to the endpoints.
EndpointQueries == {<<"S", "h", "i", "r", "t">>, <<"s", "o", "c", "k", "s">>}

\* How the scrape of the catch block of searchZaraAndSave can end.
RetryOutcomes == {[kind |-> "throws"],
                  [kind |-> "products", products |-> SubSeq(Scraped, 1, 1)]}

\* The ways one searchZaraAndSave can go: the first scrape, the upsert
\* that fails (0: none) and, after a failure, the second scrape.
SaveRuns ==
    {w \in [first : ScrapeOutcomes(DefaultLimit), failAt : 0..MaxScraped,
            second : RetryOutcomes] :
        w.failAt = 0 => w.second.kind = "throws"}

\* POST /api/scrape with { query, limit }.
ScrapeQueryCall ==
    /\ svc.n < MaxServiceCalls
    /\ \E query \in EndpointQueries, limit \in ServiceLimits, w \in SaveRuns :
          LET saved == searchZaraAndSave(cache, store, query, w.first,
                                         w.failAt, w.second, now)
          IN  /\ svc' = [kind |-> "scrape", branch |-> "query",
                         n |-> svc.n + 1, limit |-> limit,
                         calls |-> saved.calls, status |-> "ok",
                         results |-> saved.results,
                         storeFailed |-> saved.storeFailed,
                         written |-> saved.written]
              /\ cache' = saved.cache
              /\ store' = saved.store
    /\ UNCHANGED <<now, run, pIn, pOut, bIn, bOut, cIn, cOut,
                   catalogVars, ingestVars, conn>>

\* POST /api/scrape with { category, gender, limit }: the products of
\* scrapeZaraCategory go into the response as they are.
ScrapeCategoryCall ==
    /\ svc.n < MaxServiceCalls
    /\ \E limit \in ServiceLimits :
       \E products \in CategoryOutcomes(limit) :
          svc' = [kind |-> "scrape", branch |-> "category",
                  n |-> svc.n + 1, limit |-> limit, calls |-> <<>>,
                  status |-> "ok", results |-> products,
                  storeFailed |-> FALSE, written |-> 0]
    /\ UNCHANGED <<store, now, run, pIn, pOut, bIn, bOut, cIn, cOut,
                   catalogVars, ingestVars, cache, conn>>

\* GET /api/search?query=...: the catalog is asked first (a rejection of
\* findCottonProducts ends in the 500 response), and searchZaraAndSave
\* only when it has nothing.
SearchEndpointCall ==
    /\ svc.n < MaxServiceCalls
    /\ \E query \in EndpointQueries, dbUp \in BOOLEAN, w \in SaveRuns :
       \E found \in findCottonProducts(store,
                        [category |-> None, maxPrice |-> None,
                         searchQuery |-> Some(query)]) :
          LET saved == searchZaraAndSave(cache, store, query, w.first,
                                         w.failAt, w.second, now)
              base == [kind |-> "search", branch |-> "query", n |-> svc.n + 1,
                       limit |-> DefaultLimit]
          IN  IF ~dbUp
              THEN /\ svc' = base @@ [calls |-> <<>>, status |-> "error",
                                      results |-> <<>>, storeFailed |-> FALSE,
                                      written |-> 0]
                   /\ UNCHANGED <<cache, store>>
              ELSE IF found.results # <<>>
              THEN /\ svc' = base @@ [calls |-> <<>>, status |-> "ok",
                                      results |-> found.results,
                                      storeFailed |-> FALSE, written |-> 0]
                   /\ UNCHANGED <<cache, store>>
              ELSE /\ svc' = base @@ [calls |-> saved.calls, status |-> "ok",
                                      results |-> saved.results,
                                      storeFailed |-> saved.storeFailed,
                                      written |-> saved.written]
                   /\ cache' = saved.cache
                   /\ store' = saved.store
    /\ UNCHANGED <<now, run, pIn, pOut, bIn, bOut, cIn, cOut,
                   catalogVars, ingestVars, conn>>

\* ---- services/geminiService.js, POST /api/gemini, GET /api/gemini/search
\* collection.find({ is_cotton_90: true }).limit(limit).toArray()
getAllProducts(s, limit) ==
    LET IsCotton(d) == Matches(d, [EmptyQuery EXCEPT !["is_cotton_90"] =
                                        Some(IsTrue("is_cotton_90"))])
    IN  Take(SelectSeq(s, IsCotton), limit)

\* How model.generateContent(prompt) can end.
GenerateOutcomes == {"text", "throws"}

\* queryGemini(userQuery): without a model it throws before anything else;
\* with one, every failure inside leaves as 'Gemini query failed'.
queryGemini(s, hasModel, dbUp, outcome) ==
    IF ~hasModel
    THEN [kind |-> "throws", message |-> "not configured"]
    ELSE IF ~dbUp \/ outcome = "throws"
    THEN [kind |-> "throws", message |-> "query failed"]
    ELSE LET allProducts == getAllProducts(s, 50)
         IN  [kind |-> "object", answer |-> "text",
              products |-> SubSeq(allProducts, 1,
                                  IF Len(allProducts) < 5 THEN Len(allProducts)
                                  ELSE 5)]

\* geminiEnhancedSearch(userQuery): first and second are what the two calls
\* of findCottonProducts({ searchQuery: userQuery }) resolve with.  Without
\* a model the array itself is returned, with one an object holding it.
geminiEnhancedSearch(hasModel, outcome, first, second) ==
    IF ~hasModel
    THEN [kind |-> "array", items |-> first.results]
    ELSE IF outcome = "text"
    THEN [kind |-> "object", products |-> first.results,
          explanation |-> Some("text")]
    ELSE [kind |-> "object", products |-> second.results,
          explanation |-> None]

\* response.products: an array has no property of that name
ProductsOf(response) ==
    IF response.kind = "object" THEN Some(response.products) ELSE None

\* response.explanation
ExplanationOf(response) ==
    IF response.kind = "object" THEN response.explanation ELSE None

GeminiQueries == {S_tee, <<"s", "o", "c", "k", "s">>}

\* POST /api/gemini with { query }.
GeminiCall ==
    /\ svc = NoService
    /\ \E hasModel, dbUp \in BOOLEAN, outcome \in GenerateOutcomes :
          LET response == queryGemini(store, hasModel, dbUp, outcome)
              base == [kind |-> "gemini", n |-> 1, hasModel |-> hasModel]
          IN  svc' = IF response.kind = "throws"
                     THEN base @@ [status |-> "error",
                                   message |-> response.message]
                     ELSE base @@ [status |-> "ok",
                                   answer |-> response.answer,
                                   products |-> response.products]
    /\ UNCHANGED <<store, now, run, pIn, pOut, bIn, bOut, cIn, cOut,
                   catalogVars, ingestVars, cache, conn>>

\* GET /api/gemini/search?query=...: products is response.products || [],
\* count is response.products?.length || 0.
GeminiSearchCall ==
    /\ svc = NoService
    /\ \E query \in GeminiQueries, hasModel, dbUp \in BOOLEAN,
          outcome \in GenerateOutcomes :
       LET filters == [category |-> None, maxPrice |-> None,
                       searchQuery |-> Some(query)]
           base == [kind |-> "geminiSearch", n |-> 1, hasModel |-> hasModel,
                    query |-> query]
       IN  IF ~dbUp
           THEN svc' = base @@ [status |-> "error"]
           ELSE \E first, second \in findCottonProducts(store, filters) :
                  LET response == geminiEnhancedSearch(hasModel, outcome,
                                                       first, second)
                      products == IF ProductsOf(response) = None THEN <<>>
                                  ELSE ProductsOf(response)[1]
                  IN  svc' = base @@
                        [status |-> "ok", found |-> first.results,
                         products |-> products,
                         explanation |-> ExplanationOf(response),
                         count |-> Len(products)]
    /\ UNCHANGED <<store, now, run, pIn, pOut, bIn, bOut, cIn, cOut,
                   catalogVars, ingestVars, cache, conn>>

\* ---- browser sessions of the ingestion paths
\* The operations that launch a browser.
SessionOps ==
    {"searchProducts", "getProductUrls", "extractProductInfo",
     "searchZaraProducts", "scrapeCuratedUrls", "scrapeAritziaSearch"}

\* The ones that take an optional page and launch only without it.
PageOptional == {"getProductUrls", "extractProductInfo", "searchZaraProducts"}

\* The awaited calls between the launch and the work on the page.
SetupSteps == <<"newPage", "setUserAgent", "setViewport">>

\* How the work on the page can end.
BodyEnds == {"normal", "limit", "empty", "exception"}

\* The condition of the finally block around browser.close().
ClosesInFinally(op, shouldCloseBrowser, browser) ==
    IF op \in PageOptional
    THEN shouldCloseBrowser /\ browser # "null"
    ELSE browser # "null"

\* An operation is entered.
SessionStart ==
    /\ job = NoJob
    /\ \E op \in SessionOps, pageGiven \in BOOLEAN :
          /\ pageGiven => op \in PageOptional
          /\ job' = [kind |-> "session", op |-> op, pageGiven |-> pageGiven,
                     pc |-> IF pageGiven THEN "body" ELSE "launch",
                     step |-> 1, browser |-> "null",
                     shouldCloseBrowser |-> FALSE, how |-> "none"]
    /\ UNCHANGED <<store, now, run, pIn, pOut, bIn, bOut, cIn, cOut,
                   catalogVars, serviceVars>>

\* browser = await puppeteer.launch(...): scrapeAritziaSearch launches
\* before its try block, the others inside it.
SessionLaunch ==
    /\ job.kind = "session"
    /\ job.pc = "launch"
    /\ \E ok \in BOOLEAN :
          job' = IF ok
                 THEN [job EXCEPT !.browser = "open", !.pc = "setup"]
                 ELSE IF job.op = "scrapeAritziaSearch"
                 THEN [job EXCEPT !.how = "exception", !.pc = "returned"]
                 ELSE [job EXCEPT !.pc = "catch"]
    /\ UNCHANGED <<store, now, run, pIn, pOut, bIn, bOut, cIn, cOut,
                   catalogVars, serviceVars>>

\* One of the awaited calls on the new browser and page; the operations
\* with an optional page set shouldCloseBrowser after the last of them.
SessionSetup ==
    /\ job.kind = "session"
    /\ job.pc = "setup"
    /\ \E ok \in BOOLEAN :
          job' = IF ~ok
                 THEN [job EXCEPT !.pc = "catch"]
                 ELSE IF job.step < Len(SetupSteps)
                 THEN [job EXCEPT !.step = @ + 1]
                 ELSE [job EXCEPT
                         !.shouldCloseBrowser = job.op \in PageOptional,
                         !.pc = "body"]
    /\ UNCHANGED <<store, now, run, pIn, pOut, bIn, bOut, cIn, cOut,
                   catalogVars, serviceVars>>

\* The work on the page up to its return statement or a rejection;
\* scrapeAritziaSearch closes the browser before each of its returns.
SessionBody ==
    /\ job.kind = "session"
    /\ job.pc = "body"
    /\ \E end \in BodyEnds :
          job' = IF end = "exception"
                 THEN [job EXCEPT !.pc = "catch"]
                 ELSE IF job.op = "scrapeAritziaSearch"
                 THEN [job EXCEPT !.how = end, !.browser = "closed",
                                  !.pc = "returned"]
                 ELSE [job EXCEPT !.how = end, !.pc = "finally"]
    /\ UNCHANGED <<store, now, run, pIn, pOut, bIn, bOut, cIn, cOut,
                   catalogVars, serviceVars>>

\* The catch block: scrapeAritziaSearch closes the browser and rethrows,
\* the others log and go on to their finally block.
SessionCatch ==
    /\ job.kind = "session"
    /\ job.pc = "catch"
    /\ job' = IF job.op = "scrapeAritziaSearch"
              THEN [job EXCEPT !.how = "exception", !.browser = "closed",
                               !.pc = "returned"]
              ELSE [job EXCEPT !.how = "exception", !.pc = "finally"]
    /\ UNCHANGED <<store, now, run, pIn, pOut, bIn, bOut, cIn, cOut,
                   catalogVars, serviceVars>>

\* The finally block.
SessionFinally ==
    /\ job.kind = "session"
    /\ job.pc = "finally"
    /\ job' = [job EXCEPT
                 !.browser = IF ClosesInFinally(job.op, job.shouldCloseBrowser,
                                                job.browser)
                             THEN "closed" ELSE @,
                 !.pc = "returned"]
    /\ UNCHANGED <<store, now, run, pIn, pOut, bIn, bOut, cIn, cOut,
                   catalogVars, serviceVars>>

Init ==
    /\ store = <<>>
    /\ now = 0
    /\ run = [r \in {1, 2} |-> IdleRun]
    /\ pIn = NoCall /\ pOut = NoCall
    /\ bIn = NoCall /\ bOut = NoCall
    /\ cIn = NoCall /\ cOut = NoCall
    /\ vIn = NoCall /\ vOut = NoCall
    /\ qIn = NoCall /\ qOut = NoCall
    /\ job = NoJob
    /\ cache = EmptyCache
    /\ svc = NoService
    /\ conn = Disconnected

\* One ingestion run at a time: every upsert completes before the next
\* is issued.
NextSeq ==
    \/ \E batch \in Batches : StartBulk(1, batch, MaxCalls)
    \/ UpsertCall(1)
    \/ ServerMatch(1)
    \/ ServerApply(1)
    \/ Tick

SpecSeq == Init /\ [][NextSeq]_vars

\* Two ingestion runs (two HTTP requests) whose upserts interleave.
NextConc ==
    \/ \E r \in {1, 2} : \E batch \in Batches : StartBulk(r, batch, ConcCalls)
    \/ \E r \in {1, 2} : UpsertCall(r)
    \/ \E r \in {1, 2} : ServerMatch(r)
    \/ \E r \in {1, 2} : ServerApply(r)
    \/ Tick

SpecConc == Init /\ [][NextConc]_vars

\* The parser applied to one text.
NextParse == ParseCall

SpecParse == Init /\ [][NextParse]_vars

\* The record builder applied to one scraped page.
NextBuild == BuildCall

SpecBuild == Init /\ [][NextBuild]_vars

\* normalizeCategory applied to one category value.
NextCategory == NormalizeCall

SpecCategory == Init /\ [][NextCategory]_vars

\* The catalog filled by upserts in sequence, then queried once.
NextQuery ==
    \/ Ingest
    \/ CuratedCall
    \/ RouterCall
    \/ FindCottonCall

SpecQuery == Init /\ [][NextQuery]_vars

\* One run of the curated-URL script.
NextCurated ==
    \/ CuratedStart
    \/ CuratedStep

SpecCurated == Init /\ [][NextCurated]_vars

\* One task of scrapeAllZaraProducts.
NextCategoryRun ==
    \/ CategoryStart
    \/ CategoryStep
    \/ CategoryFilter

SpecCategoryRun == Init /\ [][NextCategoryRun]_vars

\* One call of ZaraScraper.searchProducts.
NextSearch ==
    \/ SearchStart
    \/ SearchStep

SpecSearch == Init /\ [][NextSearch]_vars

\* One ingestion run: the curated-URL script or a free-text search.
NextRuns ==
    \/ CuratedStart
    \/ CuratedStep
    \/ SearchStart
    \/ SearchStep

SpecRuns == Init /\ [][NextRuns]_vars

\* The catalog is filled and one of the Gemini endpoints is called.
NextGemini ==
    \/ Ingest
    \/ GeminiCall
    \/ GeminiSearchCall

SpecGemini == Init /\ [][NextGemini]_vars

\* One operation that works with a browser.
NextSession ==
    \/ SessionStart
    \/ SessionLaunch
    \/ SessionSetup
    \/ SessionBody
    \/ SessionCatch
    \/ SessionFinally

SpecSession == Init /\ [][NextSession]_vars

\* connect(), disconnect() and getDb() called in any order.
NextConn ==
    \/ \E k \in 1..MaxConnects : ConnectCall(k)
    \/ \E k \in 1..MaxConnects : ConnectResolve(k)
    \/ \E k \in 1..MaxConnects : ConnectReject(k)
    \/ DisconnectCall
    \/ DisconnectDone
    \/ GetDbCall

SpecConn == Init /\ [][NextConn]_vars

\* searchZara called directly, again and again, while entries expire.
NextCache ==
    \/ SearchZaraCall
    \/ CacheExpire

SpecCache == Init /\ [][NextCache]_vars

\* The scrape and search endpoints called one after the other.
NextService ==
    \/ ScrapeQueryCall
    \/ ScrapeCategoryCall
    \/ SearchEndpointCall
    \/ CacheExpire

SpecService == Init /\ [][NextService]_vars

\* getCategoryVariations applied to one value.
NextVariations == VariationsCall

SpecVariations == Init /\ [][NextVariations]_vars

\* ------------------------------------------------------------ store claims
AllRunsDone == \A r \in {1, 2} : run[r].pc \in {"idle", "done"}

DocsOf(u) == {j \in 1..Len(store) : store[j].url = u}

\* C1: after any sequence of upsertProduct / bulkUpsertProducts calls the
\* store holds at most one record per URL.
UrlUnique ==
    \A i, j \in 1..Len(store) : store[i].url = store[j].url => i = j

\* A URL stored once, re-ingested with other content and updated in place,
\* next to a second URL.
UrlUniqueWitness ==
    /\ Len(store) = 2
    /\ \E j \in 1..Len(store) :
          /\ store[j].url = "u1"
          /\ store[j].name = N_CrewTeeV2
          /\ store[j].updatedAt > store[j].createdAt

\* C2: createdAt is assigned once, by the inserting upsert, and kept by
\* every later upsert; updatedAt is rewritten by every upsert with the
\* date of that upsert and never decreases.
TimestampsKept ==
    [][ /\ Len(store') >= Len(store)
        /\ \A j \in 1..Len(store) :
              /\ store'[j].url = store[j].url
              /\ store'[j].createdAt = store[j].createdAt
              /\ store'[j].updatedAt >= store[j].updatedAt
        /\ \A r \in {1, 2} :
              (run[r].pc = "matched" /\ run'[r].pc # "matched") =>
                 LET j == FindOne(store', run[r].doc.url)
                 IN  /\ j > 0
                     /\ store'[j].updatedAt = run[r].ts
                     /\ (Len(store') > Len(store)
                            => store'[j].createdAt = run[r].ts)
                     /\ (run[r].match > 0 => Len(store') = Len(store))
      ]_vars

\* A record upserted again at a later time: createdAt older than updatedAt.
TimestampsKeptWitness ==
    \E j \in 1..Len(store) :
        /\ store[j].createdAt = 0
        /\ store[j].updatedAt = 2
        /\ run[1].calls = 2

\* The last position of batch[k]'s URL in the batch.
LastOf(batch, k) ==
    CHOOSE m \in k..Len(batch) :
        /\ batch[m].url = batch[k].url
        /\ \A n \in (m + 1)..Len(batch) : batch[n].url # batch[k].url

\* C3: when one bulkUpsertProducts call has returned, the record of each
\* URL of its batch carries the fields of the last product of the batch
\* with that URL.
LastInBatchWins ==
    \A r \in {1, 2} :
        run[r].pc = "done" =>
            \A k \in 1..Len(run[r].batch) :
                LET j == FindOne(store, run[r].batch[k].url)
                IN  /\ j > 0
                    /\ Content(store[j]) =
                         productToDict(run[r].batch[LastOf(run[r].batch, k)])

\* A returned call whose batch holds the same URL twice with different
\* contents.
LastInBatchWinsWitness ==
    /\ run[1].pc = "done"
    /\ run[1].batch = <<ProductA1, ProductA2>>

\* C4 (as claimed): when two concurrent runs have finished there is exactly
\* one record for each URL they wrote, and its content is that of one of
\* the writes of that URL.
ConcurrentOneRecordPerUrl ==
    (AllRunsDone /\ \A r \in {1, 2} : run[r].calls = ConcCalls) =>
        \A r \in {1, 2} : \A k \in 1..Len(run[r].batch) :
            LET u == run[r].batch[k].url
            IN  /\ Cardinality(DocsOf(u)) = 1
                /\ \A j \in DocsOf(u) :
                      \E q \in {1, 2} : \E m \in 1..Len(run[q].batch) :
                          Content(store[j]) = productToDict(run[q].batch[m])

\* ----------------------------------------------------------- parser claims
\* What the text of pIn says, read off its entries: the name of entry k is
\* the run of words after its percent sign (which runs on into the label
\* of the next entry when only a blank separates them), in lower case
\* with single blanks.
EntryWords(k) ==
    pIn.entries[k].fiber \o
    (IF pIn.sep = <<" ">> /\ k < Len(pIn.entries)
     THEN pIn.entries[k + 1].label ELSE <<>>)

EntryName(k) == toLowerCase(JoinWords(EntryWords(k), <<" ">>))

EntryPercent(k) == pIn.entries[k].num.value

EntryIsCotton(k) ==
    \E i \in 1..Len(EntryWords(k)) : toLowerCase(EntryWords(k)[i]) = S_cotton

CottonEntries == {k \in 1..Len(pIn.entries) : EntryIsCotton(k)}

IsText == pIn.kind = "string" /\ pIn.chars # <<>>

NoText == pIn.kind \in {"undefined", "null", "number"}
          \/ (pIn.kind = "string" /\ pIn.chars = <<>>)

\* C5: with a single cotton entry of p percent isCotton90 is true exactly
\* when p >= 90; for empty, absent or non-string input the mapping is
\* empty, isCotton90 is false and getCottonPercentage is 0.
CottonBoundary ==
    /\ NoText =>
          /\ pOut.parsed.composition = <<>>
          /\ pOut.parsed.isCotton90 = FALSE
          /\ pOut.cottonPercentage = 0
    /\ (IsText /\ Cardinality(CottonEntries) = 1) =>
          \A k \in CottonEntries :
              pOut.parsed.isCotton90 = (EntryPercent(k) >= 90)

\* "90% Cotton, 5% Elastane" classified as qualified.
CottonBoundaryWitness ==
    /\ IsText
    /\ Len(pIn.entries) = 2
    /\ pIn.chars = <<"9", "0", "%", " ", "C", "o", "t", "t", "o", "n", ",", " ", "5", "%", " ", "E", "l", "a", "s", "t", "a", "n", "e">>
    /\ pOut.parsed.isCotton90 = TRUE

\* The mapping holds a cotton-labelled fiber of at least 90 percent.
MappingHasCotton90 ==
    \E f \in DOMAIN pOut.parsed.composition :
        includes(f, S_cotton) /\ pOut.parsed.composition[f] >= 90

\* C6 (as claimed): isCotton90 is true iff the returned mapping contains a
\* fiber whose name includes "cotton" with a percentage >= 90.
FlagFromMapping ==
    IsText => (pOut.parsed.isCotton90 <=> MappingHasCotton90)

\* C6 (amended): isCotton90 is true iff some occurrence in the text with a
\* cotton fiber name has a percentage >= 90; a cotton entry >= 90 in the
\* mapping implies the flag, and the two agree when no fiber name repeats.
FlagFromOccurrences ==
    IsText =>
       /\ pOut.parsed.isCotton90 <=>
             \E k \in CottonEntries : EntryPercent(k) >= 90
       /\ MappingHasCotton90 => pOut.parsed.isCotton90
       /\ (\A j, k \in 1..Len(pIn.entries) : EntryName(j) = EntryName(k) => j = k)
             => (pOut.parsed.isCotton90 <=> MappingHasCotton90)

\* A cotton occurrence of 95 overwritten in the mapping by a later one of 5:
\* the flag is set although the mapping holds no cotton entry >= 90.
FlagFromOccurrencesWitness ==
    /\ IsText
    /\ pIn.chars = <<"S", "h", "e", "l", "l", ":", " ", "9", "5", "%", " ", "C", "o", "t", "t", "o", "n", ",", " ", "5", "%", " ", "C", "o", "t", "t", "o", "n">>
    /\ pOut.parsed.isCotton90
    /\ ~MappingHasCotton90

\* The mapping the text stands for: each name with the percentage of its
\* last occurrence.
ExpectedComposition ==
    [f \in {EntryName(k) : k \in 1..Len(pIn.entries)} |->
        EntryPercent(CHOOSE k \in 1..Len(pIn.entries) :
            /\ EntryName(k) = f
            /\ \A j \in (k + 1)..Len(pIn.entries) : EntryName(j) # f)]

\* C7: the mapping has one pair per "<integer>% <words>" occurrence, the
\* name in lower case and single-spaced, the percentage that of the last
\* occurrence of the name; "Shell: 95% Cotton, 5% Elastane" gives
\* {cotton: 95, elastane: 5}.
CompositionLastWins ==
    IsText =>
       /\ pOut.parsed.composition = ExpectedComposition
       /\ pIn.chars = <<"S", "h", "e", "l", "l", ":", " ", "9", "5", "%", " ", "C", "o", "t", "t", "o", "n", ",", " ", "5", "%", " ", "E", "l", "a", "s", "t", "a", "n", "e">> =>
             pOut.parsed.composition =
                (S_cotton :> 95 @@ toLowerCase(W_Elastane) :> 5)

\* "89% Organic  Cotton 90% Organic  Cotton": one name, twice, the second
\* percentage stored under the single-spaced name.
CompositionLastWinsWitness ==
    /\ IsText
    /\ Len(pIn.entries) = 2
    /\ pIn.sep = <<" ">>
    /\ EntryName(1) = EntryName(2)
    /\ EntryPercent(1) = 89 /\ EntryPercent(2) = 90
    /\ Len(pIn.entries[1].fiber) = 2
    /\ pOut.parsed.composition = (EntryName(1) :> 90)

\* C8 (as claimed): getCottonPercentage returns the percentage of the first
\* cotton occurrence of the text, 0 when there is none (or no text); so
\* whenever the mapping has a cotton-labelled fiber it is the percentage
\* of the first such occurrence.
CottonPercentIsFirstCotton ==
    /\ NoText => pOut.cottonPercentage = 0
    /\ IsText =>
          pOut.cottonPercentage =
             IF CottonEntries = {} THEN 0
             ELSE EntryPercent(CHOOSE k \in CottonEntries :
                                  \A j \in CottonEntries : k <= j)

\* ---------------------------------------------------------- builder claims
\* The page of the end-to-end scenario.
ScenarioPage ==
    /\ bIn.kind = "page"
    /\ bIn.url = ZaraBase \o <<"/", "w", "o", "m", "a", "n", "/", "p", "r", "o", "d", "u", "c", "t", "/", "p", "1", "2", "3", "4", "5", "6", ".", "h", "t", "m", "l">>
    /\ bIn.productData.name = <<"C", "o", "t", "t", "o", "n", " ", "C", "r", "e", "w", " ", "T", "e", "e">>
    /\ bIn.productData.materials =
          <<"S", "h", "e", "l", "l", ":", " ", "9", "5", "%", " ", "C", "o", "t", "t", "o", "n", ",", " ", "5", "%", " ", "E", "l", "a", "s", "t", "a", "n", "e", ".">>

RuleTops(l) ==
    \/ \E w \in {S_t_shirt, S_tshirt, S_tee, S_blouse} : includes(l, w)
    \/ l \in {S_shirt, S_shirts, S_top, S_tops}

RulePants(l) == \E w \in {S_pant, S_jean, S_trouser} : includes(l, w)

RuleSkirts(l) == includes(l, S_skirt)

RuleDresses(l) == includes(l, S_dress)

\* C10: normalizeCategory lower-cases its input and returns the category
\* of the first matching rule in the order tops, pants, skirts, dresses;
\* "t-shirt" gives "tops" and "blue jeans" gives "pants".
CategoryPriority ==
    (cIn.kind = "string" /\ cIn.chars # <<>>) =>
        LET l == toLowerCase(cIn.chars)
            first == IF RuleTops(l) THEN S_tops
                     ELSE IF RulePants(l) THEN S_pants
                     ELSE IF RuleSkirts(l) THEN S_skirts
                     ELSE S_dresses
        IN  /\ (RuleTops(l) \/ RulePants(l) \/ RuleSkirts(l) \/ RuleDresses(l))
                  => /\ cOut.server = Str(first)
                     /\ cOut.router = Str(first)
            /\ cIn.chars = S_t_shirt => cOut.server = Str(S_tops)
            /\ cIn.chars = W_blue \o <<" ">> \o W_jeans
                  => cOut.server = Str(S_pants)

\* "SKIRT PANT": two rules match and the earlier rule decides.
CategoryPriorityWitness ==
    /\ cIn.kind = "string"
    /\ cIn.chars = <<"S", "K", "I", "R", "T", " ", "P", "A", "N", "T">>
    /\ cOut.server = Str(S_pants)
    /\ cOut.router = Str(S_pants)

\* ------------------------------------------------------ variation claims
Canonical == {S_tops, S_pants, S_skirts, S_dresses}

\* C11: for every canonical category c and every variation v that
\* getCategoryVariations(c) lists, normalizeCategory(v) = c, in the server
\* and in the router.
CategoryRoundTrip ==
    (vIn.kind = "string" /\ vIn.chars \in Canonical) =>
        /\ vOut.server.kind = "list"
        /\ vOut.router.kind = "list"
        /\ \A i \in DOMAIN vOut.server.items :
              normalizeCategory(vOut.server.items[i]) = vIn
        /\ \A i \in DOMAIN vOut.router.items :
              normalizeCategoryRouter(vOut.router.items[i]) = vIn

\* The six variations of "pants" expanded by both copies.
CategoryRoundTripWitness ==
    /\ vIn = Str(S_pants)
    /\ Len(vOut.server.items) = 6
    /\ Len(vOut.router.items) = 6
    /\ vOut.server.items[3] = Str(W_jeans)

\* C12 (as claimed): normalizeCategory gives null for null or absent input
\* and the lower-cased string when no rule matches; getCategoryVariations
\* of a value that is not one of the four canonical categories gives the
\* list holding exactly that value.
OpenTaxonomy ==
    vIn # NoCall =>
        /\ (vIn.kind # "string" \/ vIn.chars = <<>>)
              => normalizeCategory(vIn) = Null
        /\ (vIn.kind = "string" /\ vIn.chars # <<>>) =>
              LET l == toLowerCase(vIn.chars)
              IN  ~(RuleTops(l) \/ RulePants(l) \/ RuleSkirts(l)
                    \/ RuleDresses(l))
                      => normalizeCategory(vIn) = Str(l)
        /\ ~(vIn.kind = "string" /\ vIn.chars \in Canonical) =>
              /\ vOut.server = List(<<vIn>>)
              /\ vOut.router = List(<<vIn>>)

\* ----------------------------------------------------------- query claims
Answered == qIn # NoCall /\ qOut # NoCall /\ qOut.kind = "ok"

HasSearchText(req) == Given(req.search) /\ trim(req.search[1]) # <<>>

\* The stored document a returned product was made from.
StoredOf(url) == store[FindOne(store, url)]

Returned(url) == \E i \in DOMAIN qOut.results : qOut.results[i].url = url

\* The stored category is one of the variations of category nc.
IsVariation(category, nc) ==
    /\ category # None
    /\ getCategoryVariations(nc).kind = "list"
    /\ Str(category[1]) \in Range(getCategoryVariations(nc).items)

\* The document is flagged as curated.
IsCuratedDoc(d) == "isCurated" \in DOMAIN d /\ d.isCurated = TRUE

\* The default cotton filter for threshold n.
PassesDefault(d, n) ==
    \/ d.cottonPercentage >= n
    \/ /\ d.cottonPercentage = 0
       /\ IsCuratedDoc(d) \/ (d.category # None /\ d.category[1] \in Canonical)

\* The cotton filter the request selects.
PassesCottonFilter(d, req) ==
    IF req.endpoint = "curated"
    THEN IF req.cottonOnly THEN d.cottonPercentage = 100
         ELSE PassesDefault(d, 90)
    ELSE IF req.minCotton >= 90 THEN PassesDefault(d, req.minCotton)
         ELSE d.cottonPercentage >= req.minCotton

\* The limit of the request does not cut the result short.
Unlimited(req) == req.endpoint = "curated" \/ req.limit >= Len(store)

DefaultCottonFilter ==
    (/\ Answered
     /\ \/ qIn.endpoint = "curated" /\ ~qIn.cottonOnly
        \/ qIn.endpoint = "search" /\ qIn.minCotton = 90) =>
        \A i \in DOMAIN qOut.results :
            PassesDefault(StoredOf(qOut.results[i].url), 90)

\* C15 (as claimed): when the search text is a category name or synonym
\* and no category filter contradicts it, the products that pass the
\* cotton filter and are stored under a variation of that category are in
\* the result, whatever their name and composition text.
SearchIsCategoryBrowse ==
    (/\ Answered
     /\ qIn.endpoint \in {"curated", "search"}
     /\ HasSearchText(qIn)
     /\ Unlimited(qIn)) =>
        LET searchTerm == toLowerCase(trim(qIn.search[1]))
            searchCategory == normalizeCategory(Str(searchTerm))
        IN  (/\ searchCategory.chars \in Canonical
             /\ CategoryFilterOf(qIn.category) \in {Null, searchCategory}) =>
                \A j \in 1..Len(store) :
                    (/\ PassesCottonFilter(store[j], qIn)
                     /\ IsVariation(store[j].category, searchCategory))
                        => Returned(store[j].url)

\* C16: every result list of findCottonProducts, GET /api/curated and
\* GET /api/products/search is in non-decreasing price order (products
\* without a price first), also after the categories were normalized and
\* the list filtered again.
PriceOrdered ==
    Answered =>
        \A i, j \in DOMAIN qOut.results :
            i < j =>
                IF qIn.endpoint = "search"
                THEN qOut.results[i].price <= qOut.results[j].price
                ELSE PriceLeq(qOut.results[i].price, qOut.results[j].price)

\* The dearer product was stored first and comes second in a list that
\* went through normalization and the second filter.
PriceOrderedWitness ==
    /\ Answered
    /\ qIn.endpoint = "search"
    /\ qIn.category = Some(S_tops)
    /\ Len(store) >= 2
    /\ store[1].url = "c2"
    /\ store[2].url = "c1"
    /\ Len(qOut.results) = 2
    /\ qOut.results[1].url = "c1"
    /\ qOut.results[1].price = 20
    /\ qOut.results[2].price = 40

\* ------------------------------------------------------------- run claims
CuratedReturned == job.kind = "curated" /\ job.pc = "returned"

\* The URLs of the run whose extraction failed: null came back or it threw.
FailedUrls == {k \in DOMAIN job.seen : job.seen[k] \in {"null", "threw"}}

NameSignals(nameLower) ==
    {c \in Canonical :
        \/ c = S_tops /\ \E w \in {S_shirt, S_tee, S_blouse} : includes(nameLower, w)
        \/ c = S_pants /\ \E w \in {S_pant, S_jean, S_trouser} : includes(nameLower, w)
        \/ c = S_skirts /\ includes(nameLower, S_skirt)
        \/ c = S_dresses /\ includes(nameLower, S_dress)}

\* The bucket under which the URL of a curated product is listed.
BucketOf(product) ==
    LET k == CHOOSE k \in DOMAIN job.list : cleanUrl(job.list[k].url) = product.url
    IN  job.list[k].category

\* C20 (as claimed): the category of a curated product is the one its name
\* signals whenever the name holds a category keyword, whatever the bucket
\* of its URL, and the bucket only when the name holds none.
NameDecidesCategory ==
    job.kind = "curated" =>
        \A k \in DOMAIN job.allProducts :
            LET product == job.allProducts[k]
                signals == NameSignals(toLowerCase(product.name))
            IN  IF signals # {} THEN product.category \in signals
                ELSE product.category = BucketOf(product)

CategoryReturned == job.kind = "category" /\ job.pc = "returned"

\* The candidate URLs behind which a cotton-qualified product stands.
CottonCandidates ==
    {k \in DOMAIN job.productUrls :
        /\ job.listing[k].kind = "page"
        /\ Extracted(job.productUrls[k], job.listing[k]) # Null
        /\ CottonQualified(Extracted(job.productUrls[k], job.listing[k]))}

\* C18 (as claimed): a category run with target count N requests at most
\* 2N candidate URLs, accepts exactly the processed URLs whose product was
\* built and is cotton-qualified, stops once N products are accepted and
\* not before while candidates remain, and so returns exactly N products,
\* all cotton-qualified, when at least N candidates yield one.
CategoryRunTarget ==
    CategoryReturned =>
        /\ Len(job.productUrls) <= 2 * job.count
        /\ Len(job.cottonProducts) =
               Cardinality(CottonCandidates \cap DOMAIN job.seen)
        /\ Len(job.cottonProducts) <= job.count
        /\ Len(job.seen) < Len(job.productUrls) =>
               Len(job.cottonProducts) = job.count
        /\ Cardinality(CottonCandidates) >= job.count =>
               /\ Len(job.cottonProducts) = job.count
               /\ \A k \in DOMAIN job.cottonProducts :
                      CottonQualified(job.cottonProducts[k])

\* The query of the running search as searchProducts compares it.
SearchQueryLower == trim(toLowerCase(job.query))

NamesTshirt ==
    includes(SearchQueryLower, S_t_shirt) \/ includes(SearchQueryLower, S_tshirt)

NamesCotton == includes(SearchQueryLower, S_cotton)

\* No routing keyword occurs in the query.
NamesNoKeyword ==
    /\ ~NamesCotton
    /\ \A w \in {S_shirt, S_tee, S_dress, S_trouser, S_pant, S_top, S_skirt,
                 S_jacket} : ~includes(SearchQueryLower, w)

\* Every request of the search went to a page of one of these categories,
\* and a returned search made at least one.
ScrapedOnlyFrom(categories) ==
    /\ \A k \in DOMAIN job.requests :
          /\ job.requests[k].source = "category"
          /\ job.requests[k].category \in categories
    /\ job.pc = "returned" => job.requests # <<>>

\* Object.keys(categoryMappings).slice(0, 3)
DefaultCategories == {S_shirts, S_pants, S_dresses}

\* C19 (as claimed): every query containing "t-shirt" or "tshirt" is
\* scraped from the tshirts category and never from shirts, a query
\* containing "shirt" but no t-shirt spelling is scraped from shirts, and
\* a query matching no keyword goes to the default categories.
SearchRoutingAsClaimed ==
    job.kind = "search" =>
        /\ NamesTshirt => ScrapedOnlyFrom({S_tshirts})
        /\ includes(SearchQueryLower, S_shirt) /\ ~NamesTshirt =>
               ScrapedOnlyFrom({S_shirts})
        /\ NamesNoKeyword => ScrapedOnlyFrom(DefaultCategories)

\* C19 (amended): a query containing "cotton" is looked up on the search
\* URL with the term cotton, whatever else it names.  Of the other
\* queries, one containing "t-shirt" or "tshirt" is scraped from tshirts
\* and never from shirts, one containing "shirt" but none of "t-shirt",
\* "tshirt", " tee" is scraped from shirts, and one matching no keyword
\* is scraped from the default categories shirts, pants, dresses.
SearchRouting ==
    job.kind = "search" =>
        /\ NamesCotton =>
               \A k \in DOMAIN job.requests :
                   /\ job.requests[k].source = "search"
                   /\ job.requests[k].category = S_cotton
        /\ ~NamesCotton /\ NamesTshirt => ScrapedOnlyFrom({S_tshirts})
        /\ /\ ~NamesCotton /\ ~NamesTshirt
           /\ includes(SearchQueryLower, S_shirt)
           /\ ~includes(SearchQueryLower, S_spaceTee)
           => ScrapedOnlyFrom({S_shirts})
        /\ NamesNoKeyword => ScrapedOnlyFrom(DefaultCategories)

\* A t-shirt search has asked both t-shirt pages and returned a product.
SearchRoutingWitness ==
    /\ job.kind = "search"
    /\ job.pc = "returned"
    /\ NamesTshirt /\ ~NamesCotton
    /\ Len(job.requests) = 2
    /\ job.products # <<>>

\* --------------------------------------------------- curated-flag claim
\* C21 (as claimed): when bulkUpsertProducts has returned, the record of
\* every URL whose last product in the batch came from the curated run
\* (isCurated = true) has isCurated = true.
CuratedFlagStored ==
    run[1].pc = "done" =>
        \A k \in 1..Len(run[1].batch) :
            run[1].batch[LastOf(run[1].batch, k)].isCurated =>
                LET j == FindOne(store, run[1].batch[k].url)
                IN  j > 0 /\ IsCuratedDoc(store[j])

\* ------------------------------------------------------ connection claim
\* C27 (as claimed): whenever a connect() has resolved and disconnect()
\* has not been called since, getDb() and getAritziaCollection() do not
\* throw 'Database not connected', also after a failed connect() and
\* while another connect() is under way.
ConnectedMeansUsable ==
    conn.connected => getDb(conn) # "throws"

\* ----------------------------------------------------------- cache claim
MockUrls == {MockProducts[k].url : k \in DOMAIN MockProducts}

\* The key tells lowercased query and limit, and nothing else.
KeysTellQueryAndLimit ==
    \A q1, q2 \in ServiceQueries, l1, l2 \in ServiceLimits :
        CacheKey(q1, l1) = CacheKey(q2, l2)
            <=> (toLowerCase(q1) = toLowerCase(q2) /\ l1 = l2)

\* What one searchZara call did to the cache and what it returned.
CallKeepsCacheRules(call) ==
    /\ ~call.scraped =>
          /\ call.key \in DOMAIN call.before
          /\ call.result = call.before[call.key]
          /\ call.after = call.before
    /\ call.after # call.before =>
          /\ call.scraped
          /\ call.outcome = "products"
          /\ call.result # <<>>
          /\ DOMAIN call.after = DOMAIN call.before \cup {call.key}
          /\ call.after[call.key] = call.result
          /\ \A k \in DOMAIN call.before \ {call.key} :
                call.after[k] = call.before[k]

CacheState ==
    /\ KeysTellQueryAndLimit
    /\ \A key \in DOMAIN cache :
          /\ cache[key] # <<>>
          /\ \A k \in DOMAIN cache[key] : cache[key][k].url \notin MockUrls
    /\ svc.kind # "none" =>
          \A k \in DOMAIN svc.calls : CallKeepsCacheRules(svc.calls[k])

\* The cache changes by a searchZara call of the step or loses entries.
CacheStep ==
    cache' # cache =>
        \/ /\ svc'.kind # "none" /\ svc' # svc
           /\ svc'.calls # <<>>
           /\ svc'.calls[1].before = cache
           /\ svc'.calls[Len(svc'.calls)].after = cache'
           /\ \A k \in 1..(Len(svc'.calls) - 1) :
                 svc'.calls[k + 1].before = svc'.calls[k].after
        \/ /\ DOMAIN cache' \subseteq DOMAIN cache
           /\ \A key \in DOMAIN cache' : cache'[key] = cache[key]

\* C30: over any sequence of searchZara calls an entry is stored only
\* after a completed scrape that returned a non-empty list, under the key
\* of the lowercased query and the limit; a call returns without the
\* scraper only when an entry exists for its key and returns exactly that
\* list; empty and mock results are never cached.
SearchCache == [](CacheState) /\ [][CacheStep]_vars

\* A second call for a query found the list the first one stored, the
\* query written in another case.
SearchCacheWitness ==
    /\ svc.kind = "searchZara"
    /\ svc.n = 2
    /\ ~svc.calls[1].scraped
    /\ Len(svc.results) = 2
    /\ svc.calls[1].query = <<"S", "h", "i", "r", "t">>

\* -------------------------------------------------------- service claims
Responded(kind) == svc.kind = kind /\ svc.status = "ok"

\* C22 (as claimed): when persisting an ingestion result fails, the
\* operation that triggered it (searchZaraAndSave and the endpoints built
\* on it) ends as an error towards its caller, not as a success with a
\* product list.
StoreFailurePropagates ==
    (svc.kind \in {"scrape", "search"} /\ svc.storeFailed) =>
        svc.status = "error"

\* The product is in the store as upsertProduct writes it.
Persisted(product) ==
    \E j \in 1..Len(store) :
        /\ store[j].url = product.url
        /\ Content(store[j]) = productToDict(product)

\* C26 (as claimed): every product of a successful POST /api/scrape
\* response has been upserted into the store before the response is
\* sent, in the category branch and in the query branch.
ScrapedMeansSaved ==
    Responded("scrape") =>
        \A k \in DOMAIN svc.results : Persisted(svc.results[k])

\* C28 (as claimed): POST /api/scrape with a free-text query and a limit
\* L returns and persists at most L products.
ScrapeLimitBounds ==
    (Responded("scrape") /\ svc.branch = "query") =>
        /\ Len(svc.results) <= svc.limit
        /\ svc.written <= svc.limit

\* ------------------------------------------------- partial-results claim
\* The step ended a search by an exception of the per-URL step.
SearchStopsEarly == job.kind = "search" /\ job.pc = "loop" /\ job'.threw

\* The step ended a curated run by an exception of the per-URL step.
CuratedStopsEarly ==
    /\ job.kind = "curated" /\ job.pc = "loop"
    /\ Len(job'.seen) = Len(job.seen) + 1
    /\ job'.seen[Len(job'.seen)] = "threw"

\* list holds the products of kept, in their order, followed by products
\* the pass accepted before it stopped: cotton-qualified products of the
\* links of pass r.
KeptAndAccepted(kept, list, r) ==
    /\ Len(list) >= Len(kept)
    /\ SubSeq(list, 1, Len(kept)) = kept
    /\ \A k \in (Len(kept) + 1)..Len(list) :
          /\ CottonQualified(list[k])
          /\ \E j \in 1..MaxListing : list[k].url = SearchUrl(r, j)

\* C25: when an exception leaves the per-URL step, the run returns at
\* once with the products accepted so far, none dropped, none altered and
\* none added from elsewhere, in searchProducts and in scrapeCuratedUrls.
PartialResultsSurvive ==
    [][/\ SearchStopsEarly =>
             /\ job'.pc = "returned"
             /\ KeptAndAccepted(job.products, job'.products, job.r)
       /\ CuratedStopsEarly =>
             /\ job'.pc = "returned"
             /\ job'.allProducts = job.allProducts]_vars

\* A search stopped on an exception in its second pass and returned the
\* products it had accepted.
SearchStoppedWithProducts ==
    /\ job.kind = "search" /\ job.pc = "returned" /\ job.threw
    /\ Len(job.products) >= 2
    /\ Len(job.requests) = 2

\* ------------------------------------------------------ minCotton claim
\* Every product of the answer is in the list of the response lower.
WithinResponse(lower) ==
    /\ lower.kind = "ok"
    /\ \A i \in DOMAIN qOut.results :
          \E j \in DOMAIN lower.results :
              lower.results[j].url = qOut.results[i].url

\* C29 (as claimed): with the other parameters equal and no truncation by
\* limit, the answer of GET /api/products/search for minCotton = b is
\* contained in its answer for every minCotton = a with a <= b.
MinCottonMonotone ==
    (Answered /\ qIn.endpoint = "search" /\ Unlimited(qIn)) =>
        \A a \in MinCottonParams :
            a <= qIn.minCotton =>
                \A lower \in RouterResponses(store, qIn.search, qIn.category,
                                             a, qIn.limit) :
                    WithinResponse(lower)

\* --------------------------------------------------------- Gemini claim
\* C23 (as claimed): without a Gemini API key queryGemini fails with the
\* configuration error, and GET /api/gemini/search answers with exactly
\* the products findCottonProducts({ searchQuery }) returned for the query
\* and with their number as count.
GeminiKeyOptional ==
    /\ (svc.kind = "gemini" /\ ~svc.hasModel) =>
          svc.status = "error" /\ svc.message = "not configured"
    /\ (svc.kind = "geminiSearch" /\ ~svc.hasModel /\ svc.status = "ok") =>
          svc.products = svc.found /\ svc.count = Len(svc.found)

\* -------------------------------------------------------- browser claim
\* C24 (as claimed): when an ingestion operation has returned, on whatever
\* exit path, no browser it launched is still open.
BrowserReleased ==
    (job.kind = "session" /\ job.pc = "returned") => job.browser # "open"

====
